---- MODULE Spec2Model ----
(***************************************************************************)
(* A model of the asset-extraction subsystem of the ROLLER installer:      *)
(* the handler registry and top-level extract_fatdata                      *)
(* (core/asset_extractor.py), the result validation, and the ZIP, ISO and  *)
(* CUE/BIN handlers (core/handlers/*.py).                                  *)
(*                                                                         *)
(* Strings are sequences of one-character strings, so that lower(),        *)
(* split(), startswith() and pathlib's decomposition into parts are        *)
(* computed as Python computes them.  A path of the local filesystem is a  *)
(* sequence of such strings (its segments below the filesystem root).      *)
(***************************************************************************)
EXTENDS Integers, Sequences, FiniteSets, TLC

VARIABLES
  handlers,   \* AssetExtractorRegistry._handlers of the global registry
  src,        \* the source file of the call, as the libraries see it
  fs,         \* the local filesystem
  result,     \* an ExtractionResult object: [fatdata_path, music_paths]
  call,       \* the last call made and how it ended
  nreg,       \* the number of register_handler calls made
  registered, \* the calls of a registry's register_handler that SpecRegistry
              \* logs, in order: [extension, handler_class]
  procs,      \* the extract_fatdata calls that run concurrently in
              \* SpecConcurrent: for each, its arguments, its position, its
              \* local variables and its outcome
  install,    \* the run of the install command: its options, its position,
              \* its local variables and its exit status
  version_file \* the text of install_path/.roller-version, or NoFile

vars == <<handlers, src, fs, result, call, nreg, registered, procs, install,
         version_file>>

(***************************** bounds **************************************)
MaxEntries == 2     \* entries of a ZIP archive
MaxRegs == 2        \* register_handler calls in one behaviour
MaxMusic == 2       \* entries of ExtractionResult.music_paths

(***************************** strings *************************************)
UpperLetters == <<"A","B","C","D","E","F","G","H","I","J","K","L","M",
                  "N","O","P","Q","R","S","T","U","V","W","X","Y","Z">>
LowerLetters == <<"a","b","c","d","e","f","g","h","i","j","k","l","m",
                  "n","o","p","q","r","s","t","u","v","w","x","y","z">>

\* str.lower() on one character
LowerChar(c) ==
  IF \E i \in DOMAIN UpperLetters : UpperLetters[i] = c
  THEN LowerLetters[CHOOSE i \in DOMAIN UpperLetters : UpperLetters[i] = c]
  ELSE c

\* str.upper() on one character
UpperChar(c) ==
  IF \E i \in DOMAIN LowerLetters : LowerLetters[i] = c
  THEN UpperLetters[CHOOSE i \in DOMAIN LowerLetters : LowerLetters[i] = c]
  ELSE c

\* str.lower()
Lower(s) == [i \in DOMAIN s |-> LowerChar(s[i])]

\* str.upper()
Upper(s) == [i \in DOMAIN s |-> UpperChar(s[i])]

\* s.startswith(p)
StartsWith(s, p) == Len(p) <= Len(s) /\ SubSeq(s, 1, Len(p)) = p

\* s.endswith("/")
EndsWithSlash(s) == Len(s) > 0 /\ s[Len(s)] = "/"

\* s.rstrip("/")
RECURSIVE RStripSlash(_)
RStripSlash(s) ==
  IF EndsWithSlash(s) THEN RStripSlash(SubSeq(s, 1, Len(s) - 1)) ELSE s

\* s.split("/"): the pieces between the slashes, empty pieces kept
RECURSIVE SplitSlash(_)
SplitSlash(s) ==
  IF \A i \in DOMAIN s : s[i] # "/"
  THEN <<s>>
  ELSE LET k == CHOOSE i \in DOMAIN s :
                  s[i] = "/" /\ \A j \in 1..(i - 1) : s[j] # "/"
       IN  <<SubSeq(s, 1, k - 1)>> \o SplitSlash(SubSeq(s, k + 1, Len(s)))

\* "/".join(parts)
RECURSIVE JoinSlash(_)
JoinSlash(parts) ==
  IF parts = <<>> THEN <<>>
  ELSE IF Len(parts) = 1 THEN parts[1]
  ELSE parts[1] \o <<"/">> \o JoinSlash(Tail(parts))

\* the elements of a sequence that satisfy Keep, order kept
RECURSIVE SelectParts(_)
SelectParts(parts) ==
  IF parts = <<>> THEN <<>>
  ELSE IF parts[1] = <<>> \/ parts[1] = <<".">>
       THEN SelectParts(Tail(parts))
       ELSE <<parts[1]>> \o SelectParts(Tail(parts))

\* pathlib.PurePosixPath(s).parts: the root "/" first for an absolute path,
\* then the segments; empty segments and "." segments are dropped, a trailing
\* slash leaves no trace, ".." is kept.
PathParts(s) ==
  (IF Len(s) > 0 /\ s[1] = "/" THEN << <<"/">> >> ELSE <<>>)
    \o SelectParts(SplitSlash(s))

\* pathlib.PurePosixPath(s).name: the last segment ("" when there is none)
PathName(s) ==
  LET segs == SelectParts(SplitSlash(s))
  IN  IF segs = <<>> THEN <<>> ELSE segs[Len(segs)]

\* pathlib.PurePosixPath(s).suffix is taken by the caller and kept in src.suffix

(************************ names used by the program ************************)
fatdata == <<"f","a","t","d","a","t","a">>        \* the literal "fatdata"
FATDATA == <<"F","A","T","D","A","T","A">>        \* the literal "FATDATA"
audio == <<"a","u","d","i","o">>                  \* the literal "audio"
Sl == <<"/">>                                     \* the literal "/"
DotZip == <<".","z","i","p">>
DotIso == <<".","i","s","o">>
DotCue == <<".","c","u","e">>
DotBin == <<".","b","i","n">>

(***************************** filesystem **********************************)
\* The local filesystem is a function from the paths that exist to "dir" or
\* to the content of a regular file.  The root <<>> always exists.
Data == {"d1", "d2"}

FsExists(f, p) == p = <<>> \/ p \in DOMAIN f
FsIsDir(f, p) == p = <<>> \/ (p \in DOMAIN f /\ f[p] = "dir")
FsIsFile(f, p) == p \in DOMAIN f /\ f[p] # "dir"

Prefixes(p) == {SubSeq(p, 1, i) : i \in 1..Len(p)}

\* The place a path names once the operating system has followed its ".."
\* segments: each one steps back to the parent directory (the root is its own
\* parent).  pathlib keeps ".." segments in a path; open and mkdir follow them.
RECURSIVE ResolveFrom(_, _)
ResolveFrom(at, p) ==
  IF p = <<>> THEN at
  ELSE IF p[1] = <<".", ".">>
       THEN ResolveFrom(IF at = <<>> THEN <<>> ELSE SubSeq(at, 1, Len(at) - 1), Tail(p))
       ELSE ResolveFrom(at \o <<p[1]>>, Tail(p))
Resolve(p) == ResolveFrom(<<>>, p)

\* the places of the path and of its ancestors, the root left out
ResolvedPrefixes(p) == {Resolve(q) : q \in Prefixes(p)} \ {<<>>}

\* Path.mkdir(parents=True, exist_ok=True): [ok, fs]
Mkdirs(f, p) ==
  IF \E q \in ResolvedPrefixes(p) : q \in DOMAIN f /\ f[q] # "dir"
  THEN [ok |-> FALSE, fs |-> f]
  ELSE [ok |-> TRUE,
        fs |-> [q \in DOMAIN f \cup ResolvedPrefixes(p) |->
                  IF q \in DOMAIN f THEN f[q] ELSE "dir"]]

\* open(p, "wb") followed by write(d): [ok, fs].  Every directory on the way
\* must exist, and the place must not be a directory.
WriteFile(f, p, d) ==
  IF \/ p = <<>> \/ Resolve(p) = <<>>
     \/ \E q \in Prefixes(SubSeq(p, 1, Len(p) - 1)) : ~FsIsDir(f, Resolve(q))
     \/ FsIsDir(f, Resolve(p))
  THEN [ok |-> FALSE, fs |-> f]
  ELSE [ok |-> TRUE,
        fs |-> [q \in DOMAIN f \cup {Resolve(p)} |->
                  IF q = Resolve(p) THEN d ELSE f[q]]]

\* any(p.iterdir()) for a directory p
FsNonEmpty(f, p) == \E q \in DOMAIN f : Len(q) = Len(p) + 1 /\ SubSeq(q, 1, Len(p)) = p

\* base / rel for pathlib paths: an absolute rel replaces base
PathJoin(base, rel) ==
  IF Len(rel) > 0 /\ rel[1] = "/"
  THEN SelectParts(SplitSlash(rel))
  ELSE base \o SelectParts(SplitSlash(rel))

(***************************** source files ********************************)
\* Python's None where a string is expected, where a path is expected, and
\* where a handler is expected
None == <<"None">>
NoPath == <<>>
NoHandler == "None"

\* no install command is running; the version file is absent
NoInstall == [pc |-> "none"]
NoFile == <<"absent">>

OutDir == << <<"o","u","t">> >>                   \* the caller's output_dir
OutFatdata == OutDir \o <<fatdata>>               \* output_dir / "fatdata"
OutAudio == OutDir \o <<audio>>                   \* output_dir / "audio"

\* What zipfile.ZipFile(path, "r") does on the file: it opens ("ok"), or raises
\* BadZipFile (not a ZIP, truncated), OSError (unreadable), or an exception of
\* neither class (zipfile raises NotImplementedError for a central directory
\* that asks for an unsupported "version needed to extract").
ZipOpenOutcomes == {"ok", "BadZipFile", "OSError", "NotImplementedError"}

\* A ZIP archive as zipfile shows it: the entries in namelist() order.
ZipEntry(n, d) == [name |-> n, data |-> d]

\* ZipFile.namelist()
namelist(entries) == [i \in DOMAIN entries |-> entries[i].name]

\* ZipFile.open(name).read(): the bytes of the last entry of that name
ZipRead(entries, n) ==
  entries[CHOOSE i \in DOMAIN entries :
            entries[i].name = n /\ \A j \in DOMAIN entries : entries[j].name = n => j <= i].data

(***************************** ZIP handler *********************************)
\* ZipHandler.can_handle: [exc, val]
Zip_can_handle(s) ==
  CASE s.zip.open = "ok" -> [exc |-> "none", val |-> TRUE]
    [] s.zip.open \in {"BadZipFile", "OSError"} -> [exc |-> "none", val |-> FALSE]
    [] OTHER -> [exc |-> s.zip.open, val |-> FALSE]

\* the directory paths one entry name contributes to all_paths (lines 33-37)
RECURSIVE DirPathsUpTo(_, _)
DirPathsUpTo(parts, i) ==
  IF i = 0 THEN {}
  ELSE LET dir_path == JoinSlash(SubSeq(parts, 1, i))
       IN  (IF EndsWithSlash(dir_path) \/ i < Len(parts)
            THEN {RStripSlash(dir_path)} ELSE {})
           \cup DirPathsUpTo(parts, i - 1)

\* all_paths of find_fatdata_path (lines 30-37)
all_paths(entries) ==
  UNION {DirPathsUpTo(PathParts(entries[k].name), Len(PathParts(entries[k].name)))
           : k \in DOMAIN entries}

\* part.lower() == "fatdata" (line 43)
IsFatdataPart(part) == Lower(part) = fatdata

\* what the scan of one path returns (lines 41-48): the path up to its first
\* matching part, or None when no part matches
ScanPath(path) ==
  LET path_parts == SplitSlash(path)
  IN  IF \E i \in DOMAIN path_parts : IsFatdataPart(path_parts[i])
      THEN LET m == CHOOSE i \in DOMAIN path_parts :
                      IsFatdataPart(path_parts[i])
                      /\ \A j \in 1..(i - 1) : ~IsFatdataPart(path_parts[j])
               \* path_parts.index(part): the first position holding that string
               fatdata_index == CHOOSE i \in DOMAIN path_parts :
                      path_parts[i] = path_parts[m]
                      /\ \A j \in 1..(i - 1) : path_parts[j] # path_parts[m]
           IN  JoinSlash(SubSeq(path_parts, 1, fatdata_index))
      ELSE None

\* ZipHandler.find_fatdata_path: the set of outcomes [exc, val].  all_paths is
\* a Python set, iterated in an order the run does not fix: the first path
\* with a matching part decides, so every matching path is a possible answer.
Zip_find_fatdata_path(s) ==
  CASE s.zip.open = "BadZipFile" -> {[exc |-> "none", val |-> None]}
    [] s.zip.open = "ok" ->
         LET found == {ScanPath(p) : p \in all_paths(s.zip.entries)} \ {None}
         IN  IF found = {} THEN {[exc |-> "none", val |-> None]}
             ELSE {[exc |-> "none", val |-> v] : v \in found}
    [] OTHER -> {[exc |-> s.zip.open, val |-> None]}

\* fatdata_files of extract_fatdata (lines 68-74), in namelist() order
RECURSIVE fatdata_files(_, _)
fatdata_files(names, fatdata_path) ==
  IF names = <<>> THEN <<>>
  ELSE LET name == names[1]
       IN  (IF (StartsWith(name, fatdata_path \o <<"/">>) \/ name = fatdata_path)
               /\ ~EndsWithSlash(name)
            THEN <<name>> ELSE <<>>)
           \o fatdata_files(Tail(names), fatdata_path)

\* relative_path with the slice taken one character early
relative_path_offbyone(file_name, fatdata_path) ==
  IF StartsWith(file_name, fatdata_path \o <<"/">>)
  THEN SubSeq(file_name, Len(fatdata_path) + 1, Len(file_name))
  ELSE PathName(file_name)

\* relative_path of one kept entry (lines 88-91)
relative_path(file_name, fatdata_path) ==
  IF StartsWith(file_name, fatdata_path \o <<"/">>)
  THEN SubSeq(file_name, Len(fatdata_path) + 2, Len(file_name))
  ELSE PathName(file_name)

\* target_path of one kept entry (line 94)
target_path(file_name, fatdata_path, out) ==
  PathJoin(out \o <<fatdata>>, relative_path(file_name, fatdata_path))

\* the extraction loop (lines 86-104): [ok, fs, written]; it stops at the
\* first OSError and leaves what was written before
RECURSIVE ZipWriteAll(_, _, _, _, _, _)
ZipWriteAll(files, entries, fatdata_path, out, f, written) ==
  IF files = <<>> THEN [ok |-> TRUE, fs |-> f, written |-> written]
  ELSE LET t == target_path(files[1], fatdata_path, out)
           m == Mkdirs(f, SubSeq(t, 1, Len(t) - 1))
           w == WriteFile(m.fs, t, ZipRead(entries, files[1]))
       IN  IF t = <<>> \/ ~m.ok THEN [ok |-> FALSE, fs |-> m.fs, written |-> written]
           ELSE IF ~w.ok THEN [ok |-> FALSE, fs |-> w.fs, written |-> written]
           ELSE ZipWriteAll(Tail(files), entries, fatdata_path, out, w.fs,
                            written \cup {t})

\* The exception that leaves the try block of extract_fatdata when it raises
\* FileNotFoundError for "no files" (lines 76-79, 109-112): FileNotFoundError
\* is a subclass of OSError, so the handler of line 111 catches it.
NoFilesError == "RuntimeError"

\* the outcome of a handler's extract_fatdata that raises e
Failed(e, f, written) ==
  [exc |-> e, fs |-> f, ret |-> NoPath, music |-> <<>>, written |-> written]

\* lines 85-112 of ZipHandler.extract_fatdata, w being the result of the loop
ZipExtractWritten(out, w) ==
  IF ~w.ok THEN Failed("RuntimeError", w.fs, w.written)
  ELSE [exc |-> "none", fs |-> w.fs, ret |-> out \o <<fatdata>>, music |-> <<>>,
        written |-> w.written]

\* lines 65-112, files being fatdata_files
ZipExtractFiles(s, out, fatdata_path, files, m) ==
  IF files = <<>> THEN Failed(NoFilesError, m.fs, {})
  ELSE ZipExtractWritten(out, ZipWriteAll(files, s.zip.entries, fatdata_path,
                                          out, m.fs, {}))

\* lines 62-112, m being the result of the mkdir of line 63
ZipExtractInto(s, out, f, fatdata_path, m) ==
  IF ~m.ok THEN Failed("OSError", f, {})
  ELSE ZipExtractFiles(s, out, fatdata_path,
                       fatdata_files(namelist(s.zip.entries), fatdata_path), m)

\* ZipHandler.extract_fatdata, given the answer loc of its find_fatdata_path:
\* [exc, fs, ret, music, written]
Zip_extract_fatdata(s, out, f, loc) ==
  IF loc.exc # "none" THEN Failed(loc.exc, f, {})
  ELSE IF loc.val = None THEN Failed("FileNotFoundError", f, {})
  ELSE ZipExtractInto(s, out, f, loc.val, Mkdirs(f, out \o <<fatdata>>))

(***************************** ISO handler *********************************)
\* An ISO image as pycdlib shows it: open tells whether PyCdlib.open parses the
\* volume, listable whether the root directory can be listed, and nodes are the
\* directory records in listing order, each [path, dir, data], path being the
\* identifiers from the root as stored in the image.  A record whose data is
\* "unreadable" makes get_file_from_iso_fp raise; a directory record whose data
\* is "unlistable" makes list_children raise.
IsoNode(p, d, x) == [path |-> p, dir |-> d, data |-> x]

Dot == <<".">>
DotDot == <<".", ".">>

\* the records of the directory with path key, in listing order
RECURSIVE ChildrenOf(_, _)
ChildrenOf(nodes, key) ==
  IF nodes = <<>> THEN <<>>
  ELSE (IF Len(nodes[1].path) = Len(key) + 1
           /\ SubSeq(nodes[1].path, 1, Len(key)) = key
        THEN <<[name |-> nodes[1].path[Len(key) + 1], dir |-> nodes[1].dir,
                data |-> nodes[1].data]>>
        ELSE <<>>)
       \o ChildrenOf(Tail(nodes), key)

\* PyCdlib.list_children(iso_path=...): [ok, children].  The path is looked up
\* by exact comparison of the stored identifiers; it raises when the path is
\* not in the image or is not a directory.  The listing starts with the "."
\* and ".." records.
list_children(img, iso_path) ==
  LET key == SelectParts(SplitSlash(iso_path))
      found == IF key = <<>> THEN img.listable
               ELSE \E i \in DOMAIN img.nodes :
                      /\ img.nodes[i].path = key /\ img.nodes[i].dir
                      /\ img.nodes[i].data # "unlistable"
  IN  IF ~found THEN [ok |-> FALSE, children |-> <<>>]
      ELSE [ok |-> TRUE,
            children |-> <<[name |-> Dot, dir |-> TRUE, data |-> "d1"],
                           [name |-> DotDot, dir |-> TRUE, data |-> "d1"]>>
                         \o ChildrenOf(img.nodes, key)]

\* IsoHandler.can_handle: every exception of open is caught
Iso_can_handle(s) == [exc |-> "none", val |-> s.iso.open]

\* the literal "/FATDATA" (line 38)
SlashFATDATA == Sl \o FATDATA

\* IsoHandler.find_fatdata_path on an image (lines 27-47): [exc, val]
Iso_find_image(img) ==
  LET root == list_children(img, Sl)
  IN  IF ~img.open \/ ~root.ok THEN [exc |-> "none", val |-> None]
      ELSE IF \E i \in DOMAIN root.children :
                Upper(root.children[i].name) = FATDATA
      THEN [exc |-> "none", val |-> SlashFATDATA]
      ELSE [exc |-> "none", val |-> None]

\* IsoHandler.find_fatdata_path on a source file
Iso_find_fatdata_path(s) == Iso_find_image(s.iso)

\* str.replace("//", "/")
RECURSIVE ReplaceDoubleSlash(_)
ReplaceDoubleSlash(t) ==
  IF Len(t) < 2 THEN t
  ELSE IF t[1] = "/" /\ t[2] = "/"
       THEN Sl \o ReplaceDoubleSlash(SubSeq(t, 3, Len(t)))
       ELSE <<t[1]>> \o ReplaceDoubleSlash(Tail(t))

\* the output name kept in the letter case of the image
child_output_path_asstored(output_dir, child_name) == PathJoin(output_dir, child_name)

\* child_output_path = output_dir / child_name.lower() (line 91)
child_output_path(output_dir, child_name) == PathJoin(output_dir, Lower(child_name))

\* IsoHandler._extract_directory_recursive (lines 75-107): [ok, fs, written].
\* IsoWalk lists one directory, IsoWalkChildren is the loop over its children;
\* the first failure ends the walk and keeps what was written.
RECURSIVE IsoWalk(_, _, _, _, _)
RECURSIVE IsoWalkChildren(_, _, _, _, _, _)
RECURSIVE IsoWalkRest(_, _, _, _, _)
IsoWalkListed(img, c, iso_path, output_dir, f, written) ==
  IF ~c.ok THEN [ok |-> FALSE, fs |-> f, written |-> written]
  ELSE IsoWalkChildren(img, c.children, iso_path, output_dir, f, written)

IsoWalk(img, iso_path, output_dir, f, written) ==
  IsoWalkListed(img, list_children(img, iso_path), iso_path, output_dir, f, written)

\* the loop going on after a child that failed
IsoWalkRest_continue(img, children, iso_path, output_dir, r) ==
  IsoWalkChildren(img, Tail(children), iso_path, output_dir, r.fs, r.written)

\* the loop goes on after a child, unless the child failed
IsoWalkRest(img, children, iso_path, output_dir, r) ==
  IF ~r.ok THEN r
  ELSE IsoWalkChildren(img, Tail(children), iso_path, output_dir, r.fs, r.written)

\* a child that is a directory (lines 93-98), m being the result of its mkdir
IsoWalkDir(img, child_iso_path, child_out, m, f, written) ==
  IF ~m.ok THEN [ok |-> FALSE, fs |-> f, written |-> written]
  ELSE IsoWalk(img, child_iso_path, child_out, m.fs,
               written \cup {child_out})

\* a child that is a file (lines 100-103), w being the result of open(.., "wb")
IsoWalkFile(child, child_out, w, f, written) ==
  IF ~w.ok THEN [ok |-> FALSE, fs |-> f, written |-> written]
  ELSE [ok |-> child.data # "unreadable", fs |-> w.fs,
        written |-> written \cup {child_out}]

\* one child (lines 82-103)
IsoWalkChild(img, child, child_iso_path, child_out, f, written) ==
  IF child.name \in {Dot, DotDot}
  THEN [ok |-> TRUE, fs |-> f, written |-> written]
  ELSE IF child.dir
  THEN IsoWalkDir(img, child_iso_path, child_out,
                  Mkdirs(f, child_out), f, written)
  ELSE IsoWalkFile(child, child_out,
                   WriteFile(f, child_out,
                             IF child.data = "unreadable" THEN "empty" ELSE child.data),
                   f, written)

IsoWalkChildren(img, children, iso_path, output_dir, f, written) ==
  IF children = <<>> THEN [ok |-> TRUE, fs |-> f, written |-> written]
  ELSE IsoWalkRest(img, children, iso_path, output_dir,
                   IsoWalkChild(img, children[1],
                                ReplaceDoubleSlash(iso_path \o Sl \o children[1].name),
                                child_output_path(output_dir, children[1].name),
                                f, written))

\* lines 58-73 of IsoHandler.extract_fatdata, w being the result of the walk
IsoExtractWalked(img, out, m, w) ==
  IF ~img.open THEN Failed("RuntimeError", m.fs, {})
  ELSE IF ~w.ok THEN Failed("RuntimeError", w.fs, w.written)
  ELSE [exc |-> "none", fs |-> w.fs, ret |-> out \o <<fatdata>>,
        music |-> <<>>, written |-> w.written]

\* lines 55-73, m being the result of the mkdir of line 56
IsoExtractInto(img, loc, out, m, f) ==
  IF ~m.ok THEN Failed("OSError", f, {})
  ELSE IsoExtractWalked(img, out, m,
                        IsoWalk(img, loc.val, out \o <<fatdata>>, m.fs, {}))

\* extract_fatdata with the search moved inside the try block
Iso_extract_image_intry(img, loc, out, f) ==
  IF loc.val = None THEN Failed("RuntimeError", f, {})
  ELSE IsoExtractInto(img, loc, out, Mkdirs(f, out \o <<fatdata>>), f)

\* IsoHandler.extract_fatdata on an image (lines 49-73):
\* [exc, fs, ret, music, written]
Iso_extract_image(img, loc, out, f) ==
  IF loc.val = None THEN Failed("FileNotFoundError", f, {})
  ELSE IsoExtractInto(img, loc, out, Mkdirs(f, out \o <<fatdata>>), f)

\* IsoHandler.extract_fatdata on a source file
Iso_extract_fatdata(s, out, f) ==
  Iso_extract_image(s.iso, Iso_find_fatdata_path(s), out, f)

(***************************** CUE/BIN handler *****************************)
DotBIN == <<".","B","I","N">>
DotCUE == <<".","C","U","E">>
DotWav == <<".","w","a","v">>
DotCdr == <<".","c","d","r">>
Digits == <<"1","2","3","4","5","6","7","8","9">>

\* A file the converter leaves in the scratch directory: track number n,
\* extension ext, and its content (an ISO image record, or audio bytes).
\* Its name is "track0" n ext, so sorting the names sorts by n.
TrackName(t) == <<"t","r","a","c","k","0", Digits[t.n]>> \o t.ext

\* sorted(output_dir.glob("track*")) (line 150)
RECURSIVE SortedTracks(_)
SortedTracks(S) ==
  IF S = {} THEN <<>>
  ELSE LET t == CHOOSE x \in S : \A y \in S : x.n <= y.n
       IN  <<t>> \o SortedTracks(S \ {t})

\* can_handle without the test of lines 50-53
Cue_can_handle_anyconverter(s) ==
  LET sfx == Lower(s.suffix)
      other_exists ==
        IF sfx = DotCue
        THEN DotBin \in s.cue.siblings \/ DotBIN \in s.cue.siblings
        ELSE DotCue \in s.cue.siblings \/ DotCUE \in s.cue.siblings
  IN  [exc |-> "none",
       val |-> sfx \in {DotCue, DotBin} /\ s.exists /\ other_exists]

\* CueBinHandler.can_handle (lines 27-55).  src.cue.siblings are the suffixes,
\* in the letter case they have on disk, of the other files that share the
\* base name of the source file; src.cue.bchunk tells whether the resolver
\* found the converter when the handler was constructed (lines 22-24).
Cue_can_handle(s) ==
  LET sfx == Lower(s.suffix)
      other_exists ==
        IF sfx = DotCue
        THEN DotBin \in s.cue.siblings \/ DotBIN \in s.cue.siblings
        ELSE DotCue \in s.cue.siblings \/ DotCUE \in s.cue.siblings
  IN  [exc |-> "none",
       val |-> /\ sfx \in {DotCue, DotBin}
               /\ s.exists /\ other_exists
               /\ s.cue.bchunk]

\* CueBinHandler.find_fatdata_path (lines 57-61)
Cue_find_fatdata_path(s) ==
  [exc |-> "none", val |-> IF Cue_can_handle(s).val THEN SlashFATDATA ELSE None]

\* the classification loop of _convert_with_bchunk (lines 147-158):
\* [iso_path, audio_tracks]; iso_path is empty (None) or holds the last image
\* in name order
RECURSIVE Classify(_, _, _)
Classify(files, iso_path, audio_tracks) ==
  IF files = <<>> THEN [iso_path |-> iso_path, audio_tracks |-> audio_tracks]
  ELSE IF Lower(files[1].ext) = DotIso
       THEN Classify(Tail(files), <<files[1]>>, audio_tracks)
       ELSE IF Lower(files[1].ext) \in {DotWav, DotCdr}
       THEN Classify(Tail(files), iso_path, audio_tracks \o <<files[1]>>)
       ELSE Classify(Tail(files), iso_path, audio_tracks)

\* the directory tempfile.TemporaryDirectory() creates (line 81): a fresh name
\* outside the output directory
Scratch == << <<"t","m","p">> >>
ScratchPath(t) == Scratch \o <<TrackName(t)>>

\* p is base or lies below it
UnderPath(p, base) == Len(p) >= Len(base) /\ SubSeq(p, 1, Len(base)) = base

\* TemporaryDirectory.cleanup(): the tree at p is removed
RemoveTree(f, p) == [q \in {x \in DOMAIN f : ~UnderPath(x, p)} |-> f[q]]

\* the files the converter leaves in the scratch directory (line 141)
ConverterRun(conv, f) ==
  [q \in DOMAIN f \cup {ScratchPath(t) : t \in conv.files} |->
     IF q \in DOMAIN f THEN f[q]
     ELSE (CHOOSE t \in conv.files : ScratchPath(t) = q).data]

\* output_dir.glob("track*") (line 150)
Glob(conv, f) == {t \in conv.files : FsExists(f, ScratchPath(t))}

\* the audio copy loop (lines 104-108): [ok, fs, copied, written].
\* shutil.copy2 reads the track in the scratch directory; into an existing
\* directory it copies below it.
RECURSIVE CopyTracks(_, _, _, _, _)
CopyTracks(tracks, audio_output_dir, f, copied, written) ==
  IF tracks = <<>> THEN [ok |-> TRUE, fs |-> f, copied |-> copied, written |-> written]
  ELSE LET dest == audio_output_dir \o <<TrackName(tracks[1])>>
           real == IF FsIsDir(f, dest) THEN dest \o <<TrackName(tracks[1])>> ELSE dest
           w == IF FsIsFile(f, ScratchPath(tracks[1]))
                THEN WriteFile(f, real, f[ScratchPath(tracks[1])])
                ELSE [ok |-> FALSE, fs |-> f]
       IN  IF ~w.ok THEN [ok |-> FALSE, fs |-> f, copied |-> copied, written |-> written]
           ELSE CopyTracks(Tail(tracks), audio_output_dir, w.fs,
                           copied \o <<dest>>, written \cup {real})

\* the outcome r of CueBinHandler.extract_fatdata together with the calls made
\* on the way, in order
CueOutcome(r, steps) ==
  [exc |-> r.exc, fs |-> r.fs, ret |-> r.ret, music |-> r.music,
   written |-> r.written, steps |-> steps]

\* lines 104-113 of CueBinHandler.extract_fatdata, a being the result of the
\* copy loop
CueExtractCopied(r, a, steps) ==
  IF ~a.ok THEN CueOutcome(Failed("OSError", a.fs, a.written), steps)
  ELSE CueOutcome([r EXCEPT !.fs = a.fs, !.music = a.copied, !.written = a.written],
                  steps)

\* lines 99-113, m being the result of the mkdir of line 101
CueExtractAudio(c, out, r, m, steps) ==
  IF ~m.ok THEN CueOutcome(Failed("OSError", r.fs, r.written), steps)
  ELSE CueExtractCopied(r, CopyTracks(c.audio_tracks, out \o <<audio>>, m.fs,
                                      <<>>, r.written),
                        steps \o <<"copy2">>)

\* a failure of the ISO handler reported as a conversion failure
CueExtractDelegated_wrapped(c, out, r, steps) ==
  IF r.exc # "none" THEN CueOutcome(Failed("RuntimeError", r.fs, r.written), steps)
  ELSE IF c.audio_tracks = <<>> THEN CueOutcome(r, steps)
  ELSE CueExtractAudio(c, out, r, Mkdirs(r.fs, out \o <<audio>>), steps)

\* the audio directory made whether or not there are audio tracks
CueExtractDelegated_always(c, out, r, steps) ==
  IF r.exc # "none" THEN CueOutcome(r, steps)
  ELSE CueExtractAudio(c, out, r, Mkdirs(r.fs, out \o <<audio>>), steps)

\* lines 96-113, r being the result of the ISO handler
CueExtractDelegated(c, out, r, steps) ==
  IF r.exc # "none" THEN CueOutcome(r, steps)
  ELSE IF c.audio_tracks = <<>> THEN CueOutcome(r, steps)
  ELSE CueExtractAudio(c, out, r, Mkdirs(r.fs, out \o <<audio>>), steps)

\* the delegation skipped over the test of lines 91-92
CueExtractClassified_nocheck(c, out, f, steps) ==
  IF c.iso_path = <<>>
  THEN CueExtractDelegated(c, out, Failed("none", f, {}), steps)
  ELSE CueExtractDelegated(c, out,
         Iso_extract_image(c.iso_path[1].img, Iso_find_image(c.iso_path[1].img),
                           out, f),
         steps \o <<"iso_handler.extract_fatdata">>)

\* lines 91-113, c being the classification of the converter's files
CueExtractClassified(c, out, f, steps) ==
  IF c.iso_path = <<>> THEN CueOutcome(Failed("RuntimeError", f, {}), steps)
  ELSE CueExtractDelegated(c, out,
         Iso_extract_image(c.iso_path[1].img, Iso_find_image(c.iso_path[1].img),
                           out, f),
         steps \o <<"iso_handler.extract_fatdata">>)

\* _convert_with_bchunk with a non-zero exit status made an error
CueExtractConverted_rcgate(conv, out, f, ran, steps) ==
  IF conv.exc = "SubprocessError" \/ (conv.exc = "none" /\ conv.rc # 0)
  THEN CueOutcome(Failed("RuntimeError", f, {}), steps)
  ELSE IF conv.exc # "none" THEN CueOutcome(Failed(conv.exc, f, {}), steps)
  ELSE CueExtractClassified(Classify(SortedTracks(Glob(conv, ran)), <<>>, <<>>),
                            out, ran, steps \o <<"classify">>)

\* lines 84-113 with _convert_with_bchunk (lines 115-161).  conv is what
\* running the converter does: exc is the exception of subprocess.run ("none"
\* when it ran), rc the exit status, files the files it left in the scratch
\* directory; f is the filesystem before the run and ran the one after it.
\* The exit status is only logged (lines 143-145).
CueExtractConverted(conv, out, f, ran, steps) ==
  IF conv.exc = "SubprocessError"
  THEN CueOutcome(Failed("RuntimeError", f, {}), steps)
  ELSE IF conv.exc # "none" THEN CueOutcome(Failed(conv.exc, f, {}), steps)
  ELSE CueExtractClassified(Classify(SortedTracks(Glob(conv, ran)), <<>>, <<>>),
                            out, ran, steps \o <<"classify">>)

\* the with block left without the removal when the body raised
CueExtractScoped_onsuccess(r) ==
  IF r.exc # "none" THEN r
  ELSE [r EXCEPT !.fs = RemoveTree(r.fs, Scratch),
                 !.steps = r.steps \o <<"cleanup">>]

\* leaving the with block of line 81: the scratch directory is removed, however
\* the body ended
CueExtractScoped(r) ==
  [r EXCEPT !.fs = RemoveTree(r.fs, Scratch), !.steps = r.steps \o <<"cleanup">>]

\* lines 81-113, m being the result of creating the scratch directory
CueExtractInScratch(s, out, m) ==
  CueExtractScoped(
    CueExtractConverted(s.cue.conv, out, m.fs, ConverterRun(s.cue.conv, m.fs),
                        <<"mkdtemp", "subprocess.run">>))

\* CueBinHandler.extract_fatdata (lines 63-113):
\* [exc, fs, ret, music, written, steps]
Cue_extract_fatdata(s, out, f) ==
  IF ~Cue_can_handle(s).val THEN CueOutcome(Failed("ValueError", f, {}), <<>>)
  ELSE CueExtractInScratch(s, out, Mkdirs(f, Scratch))

(***************************** result model ********************************)
\* the valid entries of music_paths, order kept (lines 56-58)
RECURSIVE FilterMusic(_, _)
FilterMusic(music_paths, invalid_music_files) ==
  IF music_paths = <<>> THEN <<>>
  ELSE (IF music_paths[1] \in invalid_music_files THEN <<>> ELSE <<music_paths[1]>>)
       \o FilterMusic(Tail(music_paths), invalid_music_files)

\* the test of line 50 without its is_file() half
MusicInvalid_existsonly(f, music_path) == ~FsExists(f, music_path)

\* the test of line 50
MusicInvalid(f, music_path) == ~FsExists(f, music_path) \/ ~FsIsFile(f, music_path)

\* validate without the emptiness test of lines 42-43
validate_noempty(f, fatdata_path, music_paths) ==
  IF ~FsExists(f, fatdata_path) \/ ~FsIsDir(f, fatdata_path)
  THEN [exc |-> "FileNotFoundError", music |-> music_paths]
  ELSE LET invalid_music_files ==
             {music_paths[i] : i \in {j \in DOMAIN music_paths :
                                        MusicInvalid(f, music_paths[j])}}
       IN  [exc |-> "none", music |-> FilterMusic(music_paths, invalid_music_files)]

\* ExtractionResult.validate (lines 27-58): [exc, music]
validate(f, fatdata_path, music_paths) ==
  IF ~FsExists(f, fatdata_path) \/ ~FsIsDir(f, fatdata_path)
     \/ ~FsNonEmpty(f, fatdata_path)
  THEN [exc |-> "FileNotFoundError", music |-> music_paths]
  ELSE LET invalid_music_files ==
             {music_paths[i] : i \in {j \in DOMAIN music_paths :
                                        MusicInvalid(f, music_paths[j])}}
       IN  [exc |-> "none", music |-> FilterMusic(music_paths, invalid_music_files)]

\* ExtractionResult.has_music (lines 22-25)
has_music(music_paths) == music_paths # <<>>

(***************************** registry ************************************)
HandlerClasses == {"ZipHandler", "IsoHandler", "CueBinHandler"}

\* register_handler keeping a binding the extension already has
register_handler_keepfirst(h, extension, handler_class) ==
  [e \in DOMAIN h \cup {Lower(extension)} |->
     IF e \in DOMAIN h THEN h[e] ELSE handler_class]

\* AssetExtractorRegistry.register_handler (line 120): the new mapping
register_handler(h, extension, handler_class) ==
  [e \in DOMAIN h \cup {Lower(extension)} |->
     IF e = Lower(extension) THEN handler_class ELSE h[e]]

\* handler.can_handle(file_path) of an instance of class cls
can_handle(cls, s) ==
  CASE cls = "ZipHandler" -> Zip_can_handle(s)
    [] cls = "IsoHandler" -> Iso_can_handle(s)
    [] OTHER -> Cue_can_handle(s)

\* get_handler that trusts the extension and does not call can_handle
get_handler_nodetect(h, s) ==
  LET extension == Lower(s.suffix)
  IN  IF extension \notin DOMAIN h THEN [exc |-> "none", val |-> NoHandler]
      ELSE [exc |-> "none", val |-> h[extension]]

\* AssetExtractorRegistry.get_handler (lines 123-150): [exc, val]; val is the
\* class of the handler instance returned, or NoHandler
get_handler(h, s) ==
  LET extension == Lower(s.suffix)
  IN  IF extension \notin DOMAIN h THEN [exc |-> "none", val |-> NoHandler]
      ELSE LET c == can_handle(h[extension], s)
           IN  IF c.exc # "none" THEN [exc |-> c.exc, val |-> NoHandler]
               ELSE IF c.val THEN [exc |-> "none", val |-> h[extension]]
               ELSE [exc |-> "none", val |-> NoHandler]

\* the directory of the installed tools, base_dir / "tools"
ToolsDir == << <<"t","o","o","l","s">> >>

\* handler_class() of get_handler: the tree after the constructor has run.
\* CueBinHandler.__init__ builds a BinaryResolver, whose __init__ makes the
\* tools directory; the other two classes have no constructor of their own.
handler_init(cls, f) ==
  IF cls = "CueBinHandler" THEN Mkdirs(f, ToolsDir).fs ELSE f

\* the tree after get_handler (lines 139-148): the class bound to the
\* extension, if any, is instantiated before its can_handle is asked
get_handler_fs(h, s, f) ==
  LET extension == Lower(s.suffix)
  IN  IF extension \in DOMAIN h THEN handler_init(h[extension], f) ELSE f

\* handler.extract_fatdata of an instance of class cls; zloc is the answer of
\* the ZIP handler's find_fatdata_path
handler_extract(cls, s, out, f, zloc) ==
  CASE cls = "ZipHandler" -> Zip_extract_fatdata(s, out, f, zloc)
    [] cls = "IsoHandler" -> Iso_extract_fatdata(s, out, f)
    [] OTHER -> Cue_extract_fatdata(s, out, f)

\* the outcome of the top-level extract_fatdata raising e
TopFailed(e, f, written, cls) ==
  [exc |-> e, fs |-> f, ret |-> NoPath, music |-> <<>>, written |-> written,
   handler |-> cls]

\* lines 199-205, v being the result of validate
TopValidated(cls, r, v) ==
  IF v.exc # "none" THEN TopFailed(v.exc, r.fs, r.written, cls)
  ELSE [exc |-> "none", fs |-> r.fs, ret |-> r.ret, music |-> v.music,
        written |-> r.written, handler |-> cls]

\* lines 196-209, r being the result of the handler's extract_fatdata
TopExtracted(cls, r) ==
  IF r.exc # "none" THEN TopFailed(r.exc, r.fs, r.written, cls)
  ELSE TopValidated(cls, r, validate(r.fs, r.ret, r.music))

\* lines 193-209, m being the result of the mkdir of line 193
TopDispatched(cls, s, out, f, zloc, m) ==
  IF ~m.ok THEN TopFailed("OSError", f, {}, cls)
  ELSE TopExtracted(cls, handler_extract(cls, s, out, m.fs, zloc))

\* lines 184-209, handler being the result of get_handler
TopResolved(handler, s, out, f, zloc) ==
  IF handler.exc # "none" THEN TopFailed(handler.exc, f, {}, NoHandler)
  ELSE IF handler.val = NoHandler THEN TopFailed("ValueError", f, {}, NoHandler)
  ELSE TopDispatched(handler.val, s, out, f, zloc, Mkdirs(f, out))

\* extract_fatdata of the module (lines 163-209):
\* [exc, fs, ret, music, written, handler]
extract_fatdata(h, s, out, f, zloc) ==
  IF ~s.exists THEN TopFailed("FileNotFoundError", f, {}, NoHandler)
  ELSE TopResolved(get_handler(h, s), s, out, get_handler_fs(h, s, f), zloc)

(***************************** inputs **************************************)
\* all sequences over S of length at most n
BoundedSeq(S, n) == UNION {[1..k -> S] : k \in 0..n}

FatData == <<"F","a","t","D","a","t","a">>
FATDATA2 == FATDATA \o <<"2">>
MYFATDATA == <<"M","Y">> \o FATDATA

\* entry names of the archives: explicit directory entries, files below a
\* target directory in several letter cases, nested and sibling targets, names
\* that only contain the target, and plain files named like the target
ZipDirNames == {FATDATA \o Sl,
                FATDATA \o Sl \o <<"s">> \o Sl}
ZipFileNames == {FATDATA \o Sl \o <<"a">>,
                 <<"x">> \o Sl \o FatData \o Sl \o <<"B">> \o Sl \o <<"c">>,
                 fatdata \o Sl \o <<"a">>,
                 FATDATA \o Sl \o FatData \o Sl \o <<"a">>,
                 FATDATA \o Sl \o FATDATA,
                 FATDATA2 \o Sl \o <<"a">>,
                 MYFATDATA \o Sl \o <<"a">>,
                 FATDATA \o Sl \o DotDot \o Sl \o DotDot \o Sl \o <<"x">>,
                 fatdata,
                 FATDATA,
                 <<"y">>}
\* the bytes of the entries: both contents for the two names that can be
\* written to the same place, one content for the others
ZipEntries == {ZipEntry(n, "d1") : n \in ZipDirNames \cup ZipFileNames}
                \cup {ZipEntry(n, "d2") : n \in {FATDATA \o Sl \o <<"a">>, FATDATA}}

NoZip == [open |-> "BadZipFile", entries |-> <<>>]
NoIso == [open |-> FALSE, listable |-> FALSE, nodes |-> <<>>]
NoCue == [siblings |-> {}, bchunk |-> FALSE, conv |-> [exc |-> "none", rc |-> 0, files |-> {}]]

\* a file that zipfile treats as described by open and entries
ZipFileSrc(suffix, open, entries) ==
  [suffix |-> suffix, exists |-> TRUE,
   zip |-> [open |-> open, entries |-> entries], iso |-> NoIso, cue |-> NoCue]

ZipSources ==
  {ZipFileSrc(DotZip, "ok", es) : es \in BoundedSeq(ZipEntries, MaxEntries)}
    \cup {ZipFileSrc(DotZip, o, <<>>) : o \in ZipOpenOutcomes \ {"ok"}}

\* the state of the output directory before the call: absent; holding a file
\* from an earlier run; and two states in which a write must fail
EmptyFs == <<>>
InitialFs ==
  {EmptyFs,
   [p \in {OutDir, OutFatdata, OutFatdata \o << <<"o">> >>} |->
      IF p = OutFatdata \o << <<"o">> >> THEN "d2" ELSE "dir"],
   [p \in {OutDir, OutFatdata, OutFatdata \o << <<"a">> >>} |-> "dir"],
   [p \in {OutDir, OutFatdata} |-> IF p = OutFatdata THEN "d1" ELSE "dir"]}

(***************************** ISO and CUE/BIN inputs **********************)
\* identifiers as stored in an ISO9660 directory record: a file carries its
\* version suffix ";1"
IdA == <<"A",".","T","X","T",";","1">>
IdB == <<"B",";","1">>
IdS == <<"S","U","B">>
IdOther == <<"D","O","C","S">>

Image(o, l, ns) == [open |-> o, listable |-> l, nodes |-> ns]

\* FATDATA with a file, a subdirectory and a file in it; a file beside it
ImgFull ==
  Image(TRUE, TRUE,
        <<IsoNode(<<FATDATA>>, TRUE, "d1"),
          IsoNode(<<FATDATA, IdA>>, FALSE, "d1"),
          IsoNode(<<FATDATA, IdS>>, TRUE, "d1"),
          IsoNode(<<FATDATA, IdS, IdB>>, FALSE, "d2"),
          IsoNode(<<IdB>>, FALSE, "d1")>>)
\* the target directory stored in mixed case
ImgMixed ==
  Image(TRUE, TRUE,
        <<IsoNode(<<FatData>>, TRUE, "d1"),
          IsoNode(<<FatData, IdA>>, FALSE, "d1")>>)
\* no target directory
ImgNone ==
  Image(TRUE, TRUE,
        <<IsoNode(<<IdOther>>, TRUE, "d1"),
          IsoNode(<<IdOther, FATDATA>>, TRUE, "d1"),
          IsoNode(<<IdOther, FATDATA, IdA>>, FALSE, "d1")>>)
\* a regular file named like the target
ImgFile == Image(TRUE, TRUE, <<IsoNode(<<FATDATA>>, FALSE, "d1")>>)
\* an empty target directory
ImgEmpty == Image(TRUE, TRUE, <<IsoNode(<<FATDATA>>, TRUE, "d1")>>)
\* a file whose extent cannot be read, after one that can
ImgUnreadable ==
  Image(TRUE, TRUE,
        <<IsoNode(<<FATDATA>>, TRUE, "d1"),
          IsoNode(<<FATDATA, IdA>>, FALSE, "d1"),
          IsoNode(<<FATDATA, IdB>>, FALSE, "unreadable")>>)
\* a volume whose root directory cannot be listed, and a file that is no ISO
ImgUnlistable == Image(TRUE, FALSE, <<>>)
ImgUnparseable == Image(FALSE, FALSE, <<>>)

IsoImages == {ImgFull, ImgMixed, ImgNone, ImgFile, ImgEmpty, ImgUnreadable,
              ImgUnlistable, ImgUnparseable}

DotISO == <<".","I","S","O">>
DotZIP == <<".","Z","I","P">>
DotTxt == <<".","t","x","t">>

IsoFileSrc(suffix, img) ==
  [suffix |-> suffix, exists |-> TRUE,
   zip |-> NoZip, iso |-> img, cue |-> NoCue]

IsoSources == {IsoFileSrc(DotIso, img) : img \in IsoImages}
                \cup {IsoFileSrc(DotISO, ImgFull)}

Track(n, ext, img, d) == [n |-> n, ext |-> ext, img |-> img, data |-> d]
Conv(e, rc, files) == [exc |-> e, rc |-> rc, files |-> files]

\* what a run of the converter can leave behind
ConvOutcomes ==
  {Conv("none", 0, {Track(1, DotIso, ImgFull, "d1"), Track(2, DotWav, NoIso, "d1"),
                    Track(3, DotWav, NoIso, "d2")}),
   Conv("none", 1, {Track(1, DotIso, ImgFull, "d1"), Track(2, DotCdr, NoIso, "d1")}),
   Conv("none", 0, {Track(1, DotISO, ImgFull, "d1")}),
   Conv("none", 0, {Track(1, DotWav, NoIso, "d1")}),
   Conv("none", 1, {}),
   Conv("none", 0, {Track(1, DotIso, ImgNone, "d1"), Track(2, DotWav, NoIso, "d1")}),
   Conv("none", 0, {Track(1, DotIso, ImgUnparseable, "d1")}),
   Conv("none", 0, {Track(1, DotIso, ImgUnreadable, "d1")}),
   Conv("SubprocessError", 0, {}),
   Conv("OSError", 0, {})}

CueFileSrc(suffix, siblings, bchunk, conv) ==
  [suffix |-> suffix, exists |-> TRUE, zip |-> NoZip, iso |-> NoIso,
   cue |-> [siblings |-> siblings, bchunk |-> bchunk, conv |-> conv]]

CueSources ==
  {CueFileSrc(DotCue, {DotBin}, TRUE, c) : c \in ConvOutcomes}
    \cup {CueFileSrc(sfx, sib, b, Conv("none", 0, {Track(1, DotIso, ImgFull, "d1")})) :
            sfx \in {DotCue, DotCUE, DotBin},
            sib \in {{}, {DotBin}, {DotBIN}, {DotCue}},
            b \in BOOLEAN}

\* archives for the calls that go through the registry
ZipFixtures ==
  {<<>>,
   <<ZipEntry(FATDATA \o Sl, "d1")>>,
   <<ZipEntry(FATDATA \o Sl \o <<"s">> \o Sl, "d1")>>,
   <<ZipEntry(FATDATA \o Sl \o <<"a">>, "d1")>>,
   <<ZipEntry(<<"x">> \o Sl \o FatData \o Sl \o <<"B">> \o Sl \o <<"c">>, "d2"),
     ZipEntry(<<"y">>, "d1")>>,
   <<ZipEntry(FATDATA2 \o Sl \o <<"a">>, "d1")>>}

\* a file that does not exist, files of other kinds, and files whose extension
\* does not say what they are
OtherSources ==
  {[suffix |-> sfx, exists |-> FALSE, zip |-> [open |-> "OSError", entries |-> <<>>],
    iso |-> NoIso, cue |-> NoCue] : sfx \in {DotZip, DotTxt}}
    \cup {IsoFileSrc(sfx, ImgUnparseable) : sfx \in {DotTxt, <<>>, <<".","7","z">>}}
    \cup {IsoFileSrc(DotZip, ImgFull), ZipFileSrc(DotIso, "ok", <<ZipEntry(FATDATA \o Sl \o <<"a">>, "d1")>>)}

Sources ==
  {ZipFileSrc(sfx, "ok", es) : sfx \in {DotZip, DotZIP}, es \in ZipFixtures}
    \cup {ZipFileSrc(DotZip, o, <<>>) : o \in ZipOpenOutcomes \ {"ok"}}
    \cup IsoSources \cup CueSources \cup OtherSources

(***************************** state ***************************************)
NoCall == [op |-> "none", handler |-> "none", exc |-> "none", val |-> FALSE,
           ret |-> NoPath, music |-> <<>>, written |-> {}, loc |-> None,
           steps |-> <<>>]

NoResult == [fatdata_path |-> NoPath, music_paths |-> <<>>]

\* AssetExtractorRegistry._register_default_handlers
DefaultHandlers ==
  [e \in {DotZip, DotIso} |-> IF e = DotZip THEN "ZipHandler" ELSE "IsoHandler"]

(************************ ZIP handler, called directly *********************)
ZipInit ==
  /\ handlers = DefaultHandlers
  /\ src \in ZipSources
  /\ fs \in InitialFs
  /\ result = NoResult
  /\ call = NoCall
  /\ nreg = 0
  /\ registered = <<>>
  /\ procs = <<>>
  /\ install = NoInstall
  /\ version_file = NoFile

ZipCanHandle ==
  /\ call.op = "none"
  /\ LET r == Zip_can_handle(src)
     IN  call' = [NoCall EXCEPT !.op = "can_handle", !.handler = "ZipHandler",
                                !.exc = r.exc, !.val = r.val]
  /\ UNCHANGED <<handlers, src, fs, result, nreg, registered, procs, install,
               version_file>>

ZipFind ==
  /\ call.op = "none"
  /\ \E r \in Zip_find_fatdata_path(src) :
       call' = [NoCall EXCEPT !.op = "find", !.handler = "ZipHandler",
                              !.exc = r.exc, !.loc = r.val]
  /\ UNCHANGED <<handlers, src, fs, result, nreg, registered, procs, install,
               version_file>>

ZipExtract ==
  /\ call.op = "none"
  /\ \E loc \in Zip_find_fatdata_path(src) :
       LET r == Zip_extract_fatdata(src, OutDir, fs, loc)
       IN  /\ fs' = r.fs
           /\ call' = [op |-> "extract", handler |-> "ZipHandler", exc |-> r.exc,
                       val |-> FALSE, ret |-> r.ret, music |-> r.music,
                       written |-> r.written, loc |-> loc.val, steps |-> <<>>]
  /\ UNCHANGED <<handlers, src, result, nreg, registered, procs, install,
               version_file>>

ZipNext == ZipCanHandle \/ ZipFind \/ ZipExtract

SpecZip == ZipInit /\ [][ZipNext]_vars

(************************ any handler, called directly *********************)
\* find_fatdata_path of an instance of class cls: the set of its outcomes
find_fatdata_path(cls, s) ==
  CASE cls = "ZipHandler" -> Zip_find_fatdata_path(s)
    [] cls = "IsoHandler" -> {Iso_find_fatdata_path(s)}
    [] OTHER -> {Cue_find_fatdata_path(s)}

HandlersInit ==
  /\ handlers = DefaultHandlers
  /\ src \in Sources
  /\ fs \in InitialFs
  /\ result = NoResult
  /\ call = NoCall
  /\ nreg = 0
  /\ registered = <<>>
  /\ procs = <<>>
  /\ install = NoInstall
  /\ version_file = NoFile

HandlerCanHandle(cls) ==
  /\ call.op = "none"
  /\ LET r == can_handle(cls, src)
     IN  call' = [NoCall EXCEPT !.op = "can_handle", !.handler = cls,
                                !.exc = r.exc, !.val = r.val]
  /\ UNCHANGED <<handlers, src, fs, result, nreg, registered, procs, install,
               version_file>>

HandlerFind(cls) ==
  /\ call.op = "none"
  /\ \E r \in find_fatdata_path(cls, src) :
       call' = [NoCall EXCEPT !.op = "find", !.handler = cls,
                              !.exc = r.exc, !.loc = r.val]
  /\ UNCHANGED <<handlers, src, fs, result, nreg, registered, procs, install,
               version_file>>

HandlerExtract(cls) ==
  /\ call.op = "none"
  /\ \E loc \in find_fatdata_path(cls, src) :
       LET r == handler_extract(cls, src, OutDir, fs, loc)
       IN  /\ fs' = r.fs
           /\ call' = [op |-> "extract", handler |-> cls, exc |-> r.exc,
                       val |-> FALSE, ret |-> r.ret, music |-> r.music,
                       written |-> r.written, loc |-> loc.val,
                       steps |-> IF cls = "CueBinHandler" THEN r.steps ELSE <<>>]
  /\ UNCHANGED <<handlers, src, result, nreg, registered, procs, install,
               version_file>>

HandlersNext ==
  \E cls \in HandlerClasses :
     HandlerCanHandle(cls) \/ HandlerFind(cls) \/ HandlerExtract(cls)

SpecHandlers == HandlersInit /\ [][HandlersNext]_vars

(************************ disc images, called directly *********************)
IdC == <<"C",";","1">>
IdSub == <<"S","u","b">>
IdReadMe == <<"R","e","a","d",".","M","e">>

\* The records of an image are listed in depth-first order, each directory
\* before its content.
\* the target directory stored in lower case
ImgLower ==
  Image(TRUE, TRUE,
        <<IsoNode(<<fatdata>>, TRUE, "d1"),
          IsoNode(<<fatdata, IdA>>, FALSE, "d1")>>)
\* a subdirectory between two files
ImgTree ==
  Image(TRUE, TRUE,
        <<IsoNode(<<FATDATA>>, TRUE, "d1"),
          IsoNode(<<FATDATA, IdA>>, FALSE, "d1"),
          IsoNode(<<FATDATA, IdS>>, TRUE, "d1"),
          IsoNode(<<FATDATA, IdS, IdB>>, FALSE, "d2"),
          IsoNode(<<FATDATA, IdC>>, FALSE, "d2")>>)
\* names in mixed case at two depths
ImgCase ==
  Image(TRUE, TRUE,
        <<IsoNode(<<FATDATA>>, TRUE, "d1"),
          IsoNode(<<FATDATA, IdSub>>, TRUE, "d1"),
          IsoNode(<<FATDATA, IdSub, IdReadMe>>, FALSE, "d2"),
          IsoNode(<<FATDATA, IdA>>, FALSE, "d1")>>)
\* a subdirectory that cannot be listed, and one with a file that cannot be read
ImgBadDir ==
  Image(TRUE, TRUE,
        <<IsoNode(<<FATDATA>>, TRUE, "d1"),
          IsoNode(<<FATDATA, IdA>>, FALSE, "d1"),
          IsoNode(<<FATDATA, IdS>>, TRUE, "unlistable"),
          IsoNode(<<FATDATA, IdS, IdB>>, FALSE, "d2"),
          IsoNode(<<FATDATA, IdC>>, FALSE, "d2")>>)
ImgBadFile ==
  Image(TRUE, TRUE,
        <<IsoNode(<<FATDATA>>, TRUE, "d1"),
          IsoNode(<<FATDATA, IdA>>, FALSE, "d1"),
          IsoNode(<<FATDATA, IdS>>, TRUE, "d1"),
          IsoNode(<<FATDATA, IdS, IdB>>, FALSE, "unreadable"),
          IsoNode(<<FATDATA, IdC>>, FALSE, "d2")>>)

DiscImages == IsoImages \cup {ImgLower, ImgTree, ImgCase, ImgBadDir, ImgBadFile}

DotBinMixed == <<".","B","i","n">>
DotCueMixed == <<".","C","u","e">>
DotWAV == <<".","W","A","V">>

\* what the converter can leave in the scratch directory
ConvFiles ==
  {{Track(1, DotIso, ImgFull, "d1"), Track(2, DotWav, NoIso, "d1"),
    Track(3, DotWav, NoIso, "d2")},
   {Track(1, DotIso, ImgTree, "d1"), Track(2, DotCdr, NoIso, "d1")},
   {Track(1, DotISO, ImgCase, "d1")},
   {Track(1, DotWav, NoIso, "d1")},
   {},
   {Track(1, DotTxt, NoIso, "d1"), Track(2, DotWav, NoIso, "d2")},
   {Track(1, DotIso, ImgNone, "d1"), Track(2, DotWav, NoIso, "d1")},
   {Track(1, DotIso, ImgUnparseable, "d1")},
   {Track(1, DotIso, ImgBadFile, "d1"), Track(2, DotWav, NoIso, "d1")},
   {Track(1, DotWAV, NoIso, "d2"), Track(2, DotIso, ImgEmpty, "d1"),
    Track(3, DotIso, ImgFull, "d1"), Track(4, DotCdr, NoIso, "d1")}}

\* entry-point files and their siblings, in several letter cases of the
\* extensions; runs of the converter with both kinds of exit status
DiscCueSources ==
  {CueFileSrc(DotCue, {DotBin}, TRUE, Conv("none", rc, files)) :
     rc \in {0, 1}, files \in ConvFiles}
    \cup {CueFileSrc(DotCue, {DotBin}, TRUE, Conv(e, 0, {})) :
            e \in {"SubprocessError", "OSError"}}
    \cup {CueFileSrc(sfx, sib, b, Conv("none", 0, {Track(1, DotIso, ImgFull, "d1")})) :
            sfx \in {DotCue, DotCUE, DotCueMixed, DotBin, DotBinMixed, DotIso},
            sib \in {{}, {DotBin}, {DotBIN}, {DotBinMixed},
                     {DotCue}, {DotCUE}, {DotCueMixed}},
            b \in BOOLEAN}

DiscSources == {IsoFileSrc(DotIso, img) : img \in DiscImages} \cup DiscCueSources

LowerIdA == Lower(IdA)
LowerIdS == Lower(IdS)
Track2Wav == TrackName([n |-> 2, ext |-> DotWav])

\* the output directory before the call: absent; three states in which the
\* walk of an image must fail (a file where a subdirectory goes, a directory
\* where a file goes, a file where the target directory goes); audio files of
\* an earlier run; and two states in which the audio copy must fail
DiscInitialFs ==
  {EmptyFs,
   [p \in {OutDir, OutFatdata, OutFatdata \o <<LowerIdS>>} |->
      IF p = OutFatdata \o <<LowerIdS>> THEN "d2" ELSE "dir"],
   [p \in {OutDir, OutFatdata, OutFatdata \o <<LowerIdA>>} |-> "dir"],
   [p \in {OutDir, OutFatdata} |-> IF p = OutFatdata THEN "d1" ELSE "dir"],
   [p \in {OutDir, OutAudio, OutAudio \o << <<"o">> >>} |->
      IF p = OutAudio \o << <<"o">> >> THEN "d2" ELSE "dir"],
   [p \in {OutDir, OutAudio} |-> IF p = OutAudio THEN "d1" ELSE "dir"],
   [p \in {OutDir, OutAudio, OutAudio \o <<Track2Wav>>,
           OutAudio \o <<Track2Wav, Track2Wav>>} |-> "dir"]}

DiscHandlers == {"IsoHandler", "CueBinHandler"}

DiscInit ==
  /\ handlers = DefaultHandlers
  /\ src \in DiscSources
  /\ fs \in DiscInitialFs
  /\ result = NoResult
  /\ call = NoCall
  /\ nreg = 0
  /\ registered = <<>>
  /\ procs = <<>>
  /\ install = NoInstall
  /\ version_file = NoFile

DiscNext ==
  \E cls \in DiscHandlers :
     HandlerCanHandle(cls) \/ HandlerFind(cls) \/ HandlerExtract(cls)

SpecDisc == DiscInit /\ [][DiscNext]_vars

(************************ registry and top-level call **********************)
\* extensions passed to register_handler
RegExtensions == {DotCue, DotBin, DotZIP, <<"7","z">>}

Init ==
  /\ handlers = DefaultHandlers
  /\ src \in Sources
  /\ fs \in {EmptyFs, [p \in {OutDir} |-> "d1"]}
  /\ result = NoResult
  /\ call = NoCall
  /\ nreg = 0
  /\ registered = <<>>
  /\ procs = <<>>
  /\ install = NoInstall
  /\ version_file = NoFile

RegisterHandler ==
  /\ call.op = "none"
  /\ nreg < MaxRegs
  /\ \E extension \in RegExtensions, handler_class \in HandlerClasses :
       handlers' = register_handler(handlers, extension, handler_class)
  /\ nreg' = nreg + 1
  /\ UNCHANGED <<src, fs, result, call, registered, procs, install,
               version_file>>

GetHandler ==
  /\ call.op = "none"
  /\ LET r == get_handler(handlers, src)
     IN  call' = [NoCall EXCEPT !.op = "get_handler", !.handler = r.val,
                                !.exc = r.exc]
  /\ fs' = get_handler_fs(handlers, src, fs)
  /\ UNCHANGED <<handlers, src, result, nreg, registered, procs, install,
               version_file>>

ExtractFatdata ==
  /\ call.op = "none"
  /\ \E zloc \in Zip_find_fatdata_path(src) :
       LET r == extract_fatdata(handlers, src, OutDir, fs, zloc)
       IN  /\ fs' = r.fs
           /\ call' = [op |-> "extract_fatdata", handler |-> r.handler,
                       exc |-> r.exc, val |-> FALSE, ret |-> r.ret,
                       music |-> r.music, written |-> r.written, loc |-> None,
                       steps |-> <<>>]
  /\ UNCHANGED <<handlers, src, result, nreg, registered, procs, install,
               version_file>>

Next == RegisterHandler \/ GetHandler \/ ExtractFatdata

Spec == Init /\ [][Next]_vars

(************************ a registry and its registrations *****************)
MaxCalls == 2

\* extension strings passed to register_handler: built-in ones in other letter
\* cases, new ones, and one without its dot
Dot7z == <<".","7","z">>
Dot7Z == <<".","7","Z">>
No7z == <<"7","z">>
RegistryExtensions == {DotZIP, DotZip, DotISO, Dot7z, Dot7Z, No7z}

\* files to resolve: pathlib gives a suffix that is empty or starts with a dot
RegistrySources ==
  {ZipFileSrc(sfx, "ok", <<ZipEntry(FATDATA \o Sl \o <<"a">>, "d1")>>) :
     sfx \in {DotZip, DotZIP, DotIso, Dot7z, Dot7Z, <<>>}}
    \cup {IsoFileSrc(sfx, ImgFull) : sfx \in {DotZip, DotIso, DotISO, Dot7z}}

RegistryInit ==
  /\ handlers = DefaultHandlers
  /\ src \in RegistrySources
  /\ fs = EmptyFs
  /\ result = NoResult
  /\ call = NoCall
  /\ nreg = 0
  /\ registered = <<>>
  /\ procs = <<>>
  /\ install = NoInstall
  /\ version_file = NoFile

\* registry.register_handler(extension, handler_class) (lines 113-121)
RegistryRegister ==
  /\ call.op = "none"
  /\ Len(registered) < MaxCalls
  /\ \E extension \in RegistryExtensions, handler_class \in HandlerClasses :
       /\ handlers' = register_handler(handlers, extension, handler_class)
       /\ registered' = Append(registered, [extension |-> extension,
                                            handler_class |-> handler_class])
  /\ nreg' = nreg + 1
  /\ UNCHANGED <<src, fs, result, call, procs, install, version_file>>

RegistryNext == RegistryRegister \/ GetHandler

SpecRegistry == RegistryInit /\ [][RegistryNext]_vars

(************************ concurrent top-level calls ***********************)
\* Two calls of extract_fatdata run in two threads, with distinct output
\* directories, and a register_handler call may run at any moment.  A call's
\* positions are the statements of extract_fatdata; the handler's
\* extract_fatdata is one step, since it writes below its own output directory
\* and in a scratch directory of its own, freshly named by tempfile.
Calls == {1, 2}
MaxRegistrations == 1
OutOf(p) == IF p = 1 THEN << <<"o","u","t","1">> >> ELSE << <<"o","u","t","2">> >>

ConcurrentSources ==
  {ZipFileSrc(DotZip, "ok", <<ZipEntry(FATDATA \o Sl \o <<"a">>, "d1")>>),
   IsoFileSrc(DotIso, ImgFull),
   IsoFileSrc(DotZip, ImgTree),
   CueFileSrc(DotCue, {DotBin}, TRUE,
              Conv("none", 0, {Track(1, DotIso, ImgFull, "d1"),
                               Track(2, DotWav, NoIso, "d2")})),
   [suffix |-> DotZip, exists |-> FALSE,
    zip |-> [open |-> "OSError", entries |-> <<>>], iso |-> NoIso, cue |-> NoCue]}

\* registrations that run beside the calls
ConcurrentRegistrations ==
  {[extension |-> DotCue, handler_class |-> "CueBinHandler"],
   [extension |-> DotZIP, handler_class |-> "IsoHandler"],
   [extension |-> DotIso, handler_class |-> "ZipHandler"]}

NewCall(s, p) ==
  [src |-> s, out |-> OutOf(p), pc |-> "start", handler |-> NoHandler,
   began |-> <<>>, looked |-> <<>>, zloc |-> [exc |-> "none", val |-> None],
   exc |-> "none", ret |-> NoPath, music |-> <<>>]

ConcurrentInit ==
  /\ handlers = DefaultHandlers
  /\ src \in {ZipFileSrc(DotZip, "ok", <<>>)}
  /\ fs = EmptyFs
  /\ result = NoResult
  /\ call = NoCall
  /\ nreg = 0
  /\ registered = <<>>
  /\ procs \in {[p \in Calls |-> NewCall(IF p = 1 THEN s1 ELSE s2, p)] :
                  s1 \in ConcurrentSources, s2 \in ConcurrentSources}
  /\ install = NoInstall
  /\ version_file = NoFile

\* the call's handler once it has been resolved, with a registry that reads h
\* at that moment: the call's own instance, whatever the registry now holds
Instance_rebound(own, h, s) ==
  IF Lower(s.suffix) \in DOMAIN h THEN h[Lower(s.suffix)] ELSE own

\* the local variable handler of extract_fatdata (lines 184, 196): the
\* instance get_handler made for this call
Instance(own, h, s) == own

Raise(c, e) == [c EXCEPT !.pc = "done", !.exc = e]

\* lines 181-182; began keeps the registry as it was when the call began
CallStart(p) ==
  /\ procs[p].pc = "start"
  /\ procs' = [procs EXCEPT ![p] =
       IF ~procs[p].src.exists THEN Raise([@ EXCEPT !.began = handlers], "FileNotFoundError")
       ELSE [@ EXCEPT !.pc = "get_handler", !.began = handlers]]
  /\ UNCHANGED <<handlers, src, fs, result, call, nreg, registered, install,
               version_file>>

\* lines 184-186; looked keeps the registry as get_handler read it
CallGetHandler(p) ==
  /\ procs[p].pc = "get_handler"
  /\ LET handler == get_handler(handlers, procs[p].src)
     IN  procs' = [procs EXCEPT ![p] =
           IF handler.exc # "none" THEN Raise([@ EXCEPT !.looked = handlers], handler.exc)
           ELSE IF handler.val = NoHandler
           THEN Raise([@ EXCEPT !.looked = handlers], "ValueError")
           ELSE [@ EXCEPT !.pc = "mkdir", !.handler = handler.val,
                          !.looked = handlers]]
  /\ fs' = get_handler_fs(handlers, procs[p].src, fs)
  /\ UNCHANGED <<handlers, src, result, call, nreg, registered, install,
               version_file>>

\* line 193
CallMkdir(p) ==
  /\ procs[p].pc = "mkdir"
  /\ LET m == Mkdirs(fs, procs[p].out)
     IN  /\ fs' = m.fs
         /\ procs' = [procs EXCEPT ![p] =
               IF ~m.ok THEN Raise(@, "OSError") ELSE [@ EXCEPT !.pc = "extract"]]
  /\ UNCHANGED <<handlers, src, result, call, nreg, registered, install,
               version_file>>

\* line 196
CallExtract(p) ==
  /\ procs[p].pc = "extract"
  /\ \E zloc \in Zip_find_fatdata_path(procs[p].src) :
       LET r == handler_extract(Instance(procs[p].handler, handlers, procs[p].src),
                                procs[p].src, procs[p].out, fs, zloc)
       IN  /\ fs' = r.fs
           /\ procs' = [procs EXCEPT ![p] =
                 IF r.exc # "none" THEN Raise([@ EXCEPT !.zloc = zloc], r.exc)
                 ELSE [@ EXCEPT !.pc = "validate", !.ret = r.ret,
                                !.music = r.music, !.zloc = zloc]]
  /\ UNCHANGED <<handlers, src, result, call, nreg, registered, install,
               version_file>>

\* lines 199-205
CallValidate(p) ==
  /\ procs[p].pc = "validate"
  /\ LET v == validate(fs, procs[p].ret, procs[p].music)
     IN  procs' = [procs EXCEPT ![p] =
           IF v.exc # "none" THEN Raise([@ EXCEPT !.ret = NoPath, !.music = <<>>], v.exc)
           ELSE [@ EXCEPT !.pc = "done", !.music = v.music]]
  /\ UNCHANGED <<handlers, src, fs, result, call, nreg, registered, install,
               version_file>>

\* register_handler of the module (lines 212-219), from a third thread
ConcurrentRegister ==
  /\ nreg < MaxRegistrations
  /\ \E r \in ConcurrentRegistrations :
       handlers' = register_handler(handlers, r.extension, r.handler_class)
  /\ nreg' = nreg + 1
  /\ UNCHANGED <<src, fs, result, call, registered, procs, install,
               version_file>>

ConcurrentNext ==
  \/ \E p \in Calls : \/ CallStart(p) \/ CallGetHandler(p) \/ CallMkdir(p)
                      \/ CallExtract(p) \/ CallValidate(p)
  \/ ConcurrentRegister

SpecConcurrent == ConcurrentInit /\ [][ConcurrentNext]_vars

(***************************** the install command *************************)
MaxRuns == 2   \* runs of the install command in one behaviour

\* install_path, and the binary that the release holds
InstallDir == << <<"r","o","l","l","e","r","d","i","r">> >>
RollerBinary == InstallDir \o << <<"r","o","l","l","e","r">> >>

\* str.strip(): leading and trailing whitespace removed
Whitespace == {" ", "\n"}
RECURSIVE lstrip(_)
lstrip(s) == IF s # <<>> /\ s[1] \in Whitespace THEN lstrip(Tail(s)) ELSE s
RECURSIVE rstrip(_)
rstrip(s) ==
  IF s # <<>> /\ s[Len(s)] \in Whitespace
  THEN rstrip(SubSeq(s, 1, Len(s) - 1)) ELSE s
strip(s) == rstrip(lstrip(s))

\* release tags, and texts of the version file found before the first run
V0 == <<"v","0">>
V1 == <<"v","1">>
V2 == <<"v","2">>
VersionOptions == {None, <<>>, V1, V2}      \* --version: absent, "", a tag
VersionTexts == {V0, V1, V1 \o <<"\n">>}

\* the outcomes of RollerGitHubClient().get_latest_prerelease_tag(): a tag,
\* None when the repository has no pre-release, or the GithubException re-raised
LatestOutcomes ==
  {[exc |-> "none", val |-> t] : t \in {V1, V2, None}}
    \cup {[exc |-> "GithubException", val |-> None]}

\* the outcomes of subprocess.run(cmd, check=False) in download: an exit
\* status, a SubprocessError, or the OSError of a command that cannot be started
RunOutcomes ==
  {[exc |-> "none", returncode |-> rc] : rc \in {0, 1}}
    \cup {[exc |-> e, returncode |-> 0] : e \in {"SubprocessError", "OSError"}}

\* a run of install with its options; before keeps the text of the version
\* file as the run found it, steps the calls it made
NewInstall(version, force, n, vf) ==
  [pc |-> "resolve", version |-> version, force |-> force, n |-> n,
   before |-> vf, steps |-> <<>>, exc |-> "none", exit |-> 0]

\* lines 137-139: every exception is reported and turned into exit status 1
InstallFailed(run, e) == [run EXCEPT !.pc = "done", !.exc = e, !.exit = 1]

\* lines 97-104, latest being the outcome of get_latest_prerelease_tag: the
\* typer.Exit raised for "no pre-release" is an exception like the others
InstallResolved(run, latest) ==
  IF run.version # None /\ run.version # <<>> THEN [run EXCEPT !.pc = "check"]
  ELSE IF latest.exc # "none" THEN InstallFailed(run, latest.exc)
  ELSE IF latest.val = None THEN InstallFailed(run, "Exit")
  ELSE [run EXCEPT !.pc = "check", !.version = latest.val]

\* lines 106-112, vf being the text of the version file
InstallChecked(run, vf) ==
  IF vf # NoFile /\ ~run.force /\ strip(vf) = run.version
  THEN [run EXCEPT !.pc = "done"]
  ELSE [run EXCEPT !.pc = "tools"]

\* UbiDownloader.download (ubi_downloader.py lines 20-81), p being the outcome
\* of subprocess.run: [exc, fs]
download(f, p) ==
  LET m == Mkdirs(f, InstallDir)
  IN  IF ~m.ok THEN [exc |-> "FileExistsError", fs |-> f]
      ELSE IF p.exc = "SubprocessError" THEN [exc |-> "RuntimeError", fs |-> m.fs]
      ELSE IF p.exc # "none" THEN [exc |-> p.exc, fs |-> m.fs]
      ELSE IF p.returncode # 0 THEN [exc |-> "RuntimeError", fs |-> m.fs]
      ELSE [exc |-> "none", fs |-> WriteFile(m.fs, RollerBinary, "d1").fs]

\* the call of the downloader as the run logs it
DownloadStep(run, e) == [op |-> "download", tag |-> run.version, exc |-> e]

\* an install command that saves the version whatever the downloader did
InstallDownloaded_savealways(run, d) ==
  [run EXCEPT !.pc = "save", !.steps = Append(@, DownloadStep(run, d.exc))]

\* lines 121-132, d being the outcome of the downloader: an exception leaves
\* the try block before the version is saved
InstallDownloaded(run, d) ==
  IF d.exc # "none"
  THEN InstallFailed([run EXCEPT !.steps = Append(@, DownloadStep(run, d.exc))],
                     d.exc)
  ELSE [run EXCEPT !.pc = "save", !.steps = Append(@, DownloadStep(run, "none"))]

\* lines 130-132, w being the outcome of write_text
InstallSaved(run, w) ==
  LET logged == [run EXCEPT !.steps =
                   Append(@, [op |-> "write_text", tag |-> run.version, exc |-> w])]
  IN  IF w # "none" THEN InstallFailed(logged, w)
      ELSE [logged EXCEPT !.pc = "done"]

InstallInit ==
  /\ handlers = DefaultHandlers
  /\ src \in {ZipFileSrc(DotZip, "ok", <<>>)}
  /\ result = NoResult
  /\ call = NoCall
  /\ nreg = 0
  /\ registered = <<>>
  /\ procs = <<>>
  /\ \E vf \in {NoFile} \cup VersionTexts :
       /\ version_file = vf
       /\ fs \in (IF vf = NoFile THEN {EmptyFs} ELSE {})
                   \cup {[p \in {InstallDir} |-> "dir"]}
       /\ install \in {NewInstall(v, f, 1, vf) : v \in VersionOptions, f \in BOOLEAN}

\* lines 97-104
InstallResolve ==
  /\ install.pc = "resolve"
  /\ \E latest \in LatestOutcomes :
       install' = InstallResolved(install, latest)
  /\ UNCHANGED <<handlers, src, fs, result, call, nreg, registered, procs,
                 version_file>>

\* lines 106-112
InstallCheck ==
  /\ install.pc = "check"
  /\ install' = InstallChecked(install, version_file)
  /\ UNCHANGED <<handlers, src, fs, result, call, nreg, registered, procs,
                 version_file>>

\* lines 116-119: _ensure_tools_available builds the resolvers of the tools,
\* which makes the tools directory, and reports tools that are missing without
\* failing; an error of its own ends the run
InstallTools ==
  /\ install.pc = "tools"
  /\ \E e \in {"none", "OSError"} :
       IF e # "none"
       THEN install' = InstallFailed(install, e) /\ fs' = fs
       ELSE install' = [install EXCEPT !.pc = "download"]
            /\ fs' = Mkdirs(fs, ToolsDir).fs
  /\ UNCHANGED <<handlers, src, result, call, nreg, registered, procs,
                 version_file>>

\* lines 121-128: UbiDownloader() raises RuntimeError when ubi is not found
InstallDownload ==
  /\ install.pc = "download"
  /\ \E ubi \in BOOLEAN, p \in RunOutcomes :
       LET d == IF ubi THEN download(fs, p)
                ELSE [exc |-> "RuntimeError", fs |-> fs]
       IN  /\ install' = InstallDownloaded(install, d)
           /\ fs' = d.fs
  /\ UNCHANGED <<handlers, src, result, call, nreg, registered, procs,
                 version_file>>

\* lines 130-132: write_text opens the file for writing, which empties it, and
\* writes the version; it fails before the file was opened or after
InstallSave ==
  /\ install.pc = "save"
  /\ \E w \in {"none", "OSError"} :
       /\ install' = InstallSaved(install, w)
       /\ IF w = "none" THEN version_file' = install.version
          ELSE version_file' \in {version_file, <<>>}
  /\ UNCHANGED <<handlers, src, fs, result, call, nreg, registered, procs>>

\* the command is run again, with other options
InstallAgain ==
  /\ install.pc = "done"
  /\ install.n < MaxRuns
  /\ \E v \in VersionOptions, f \in BOOLEAN :
       install' = NewInstall(v, f, install.n + 1, version_file)
  /\ UNCHANGED <<handlers, src, fs, result, call, nreg, registered, procs,
                 version_file>>

InstallNext ==
  \/ InstallResolve \/ InstallCheck \/ InstallTools \/ InstallDownload
  \/ InstallSave \/ InstallAgain

SpecInstall == InstallInit /\ [][InstallNext]_vars

(************************ validation of a result ***************************)
TrackPath(n) == OutAudio \o <<TrackName([n |-> n, ext |-> DotWav])>>

\* entries of music_paths: two tracks, and the audio directory itself
MusicPaths == {TrackPath(1), TrackPath(2), OutAudio}

FsOf(dirs, files) ==
  [p \in dirs \cup files |-> IF p \in dirs THEN "dir" ELSE "d1"]

\* the output tree when validate runs: complete; with a track deleted since,
\* or all of them; and the three states of a target that is not valid
ValidateFs ==
  {FsOf({OutDir, OutFatdata, OutAudio},
        {OutFatdata \o << <<"a">> >>, TrackPath(1), TrackPath(2)}),
   FsOf({OutDir, OutFatdata, OutAudio}, {OutFatdata \o << <<"a">> >>, TrackPath(2)}),
   FsOf({OutDir, OutFatdata}, {OutFatdata \o << <<"a">> >>}),
   FsOf({OutDir, OutFatdata, OutAudio}, {TrackPath(1)}),
   FsOf({OutDir, OutAudio}, {OutFatdata, TrackPath(1)}),
   FsOf({OutDir, OutAudio}, {TrackPath(1)})}

ValidateInit ==
  /\ handlers = DefaultHandlers
  /\ src \in {ZipFileSrc(DotZip, "ok", <<>>)}
  /\ fs \in ValidateFs
  /\ result \in {[fatdata_path |-> OutFatdata, music_paths |-> ms] :
                   ms \in BoundedSeq(MusicPaths, MaxMusic)}
  /\ call = NoCall
  /\ nreg = 0
  /\ registered = <<>>
  /\ procs = <<>>
  /\ install = NoInstall
  /\ version_file = NoFile

\* result.validate(); call.music keeps the entries the list had before
Validate ==
  /\ call.op = "none"
  /\ LET v == validate(fs, result.fatdata_path, result.music_paths)
     IN  /\ result' = [result EXCEPT !.music_paths = v.music]
         /\ call' = [NoCall EXCEPT !.op = "validate", !.exc = v.exc,
                                   !.music = result.music_paths]
  /\ UNCHANGED <<handlers, src, fs, nreg, registered, procs, install,
               version_file>>

ValidateNext == Validate

SpecValidate == ValidateInit /\ [][ValidateNext]_vars

(***************************** registry claims *****************************)
ExtensionBound == Lower(src.suffix) \in DOMAIN handlers

\* detect of the handler bound to the file's extension returned true
DetectAccepts ==
  LET c == can_handle(handlers[Lower(src.suffix)], src)
  IN  c.exc = "none" /\ c.val

Dispatched == call.op \in {"get_handler", "extract_fatdata"} /\ call.exc = "none"

\* C1: get_handler returns a handler only if it is an instance of the class
\* bound to the lower-cased extension and its can_handle returned true; for
\* every other file it returns no handler (and the top-level call, which
\* returns normally only after a dispatch, has used no other handler).
C1_DispatchGatedByDetect ==
  /\ (Dispatched /\ call.handler # NoHandler) =>
        (ExtensionBound /\ call.handler = handlers[Lower(src.suffix)] /\ DetectAccepts)
  /\ (call.op = "get_handler" /\ call.exc = "none"
        /\ (~ExtensionBound \/ ~DetectAccepts)) => call.handler = NoHandler

\* witness of C1: a handler registered at run time was returned after its
\* detect accepted the file
C1_Witness ==
  call.op = "get_handler" /\ call.handler = "CueBinHandler" /\ nreg > 0

\* detect of the bound handler did not return true
DetectFails ==
  LET c == can_handle(handlers[Lower(src.suffix)], src)
  IN  c.exc # "none" \/ ~c.val

\* C2: for an existing file with no bound handler or a failing detect, registry
\* dispatch reports "no handler" without raising and the top-level call ends
\* in ValueError, never in another exception.
C2_NoHandlerNeverRaises ==
  (src.exists /\ (~ExtensionBound \/ DetectFails)) =>
     /\ call.op = "get_handler" => (call.exc = "none" /\ call.handler = NoHandler)
     /\ call.op = "extract_fatdata" => call.exc = "ValueError"

\* C3: a registry without run-time registrations binds .zip, .iso, .cue and
\* .bin, so that a valid CUE/BIN source is dispatched to its handler.
C3_BuiltinFormatsBound ==
  (call.op = "extract_fatdata" /\ nreg = 0 /\ Cue_can_handle(src).val) =>
     /\ {DotZip, DotIso, DotCue, DotBin} \subseteq DOMAIN handlers
     /\ call.handler = "CueBinHandler"

\* C4: every result the top-level extract_fatdata returns was validated: its
\* fatdata_path exists, is a directory and is not empty; when the call raises,
\* no result is returned.
C4_ReturnedResultIsValid ==
  call.op = "extract_fatdata" =>
     /\ call.exc = "none" =>
          (call.ret = OutFatdata /\ FsExists(fs, call.ret) /\ FsIsDir(fs, call.ret)
             /\ FsNonEmpty(fs, call.ret))
     /\ call.exc # "none" => call.ret = NoPath

\* witness of C4: a result came back from the ISO handler
C4_Witness ==
  call.op = "extract_fatdata" /\ call.exc = "none" /\ call.handler = "IsoHandler"
    /\ FsNonEmpty(fs, call.ret)

(***************************** result claims *******************************)
\* the entries of a list that reference an existing regular file, order kept
RECURSIVE ValidEntries(_, _)
ValidEntries(f, ms) ==
  IF ms = <<>> THEN <<>>
  ELSE (IF ms[1] \in DOMAIN f /\ f[ms[1]] # "dir" THEN <<ms[1]>> ELSE <<>>)
       \o ValidEntries(f, Tail(ms))

TargetValid == FsIsDir(fs, result.fatdata_path) /\ FsNonEmpty(fs, result.fatdata_path)

\* C5: with a valid target directory validate does not fail, music_paths
\* becomes the subsequence of its entries that reference an existing regular
\* file, and has_music tells whether one remains.
C5_InvalidMusicDropped ==
  (call.op = "validate" /\ TargetValid) =>
     /\ call.exc = "none"
     /\ result.music_paths = ValidEntries(fs, call.music)
     /\ has_music(result.music_paths) <=>
          (\E i \in DOMAIN call.music : FsIsFile(fs, call.music[i]))

\* witness of C5: of two entries one was dropped
C5_Witness ==
  call.op = "validate" /\ call.exc = "none"
    /\ Len(call.music) = 2 /\ Len(result.music_paths) = 1

(***************************** handler claims ******************************)
\* locate returns nothing for the file
LocateNothing(cls, s) == find_fatdata_path(cls, s) = {[exc |-> "none", val |-> None]}

HandlerExtracted == call.op = "extract"

\* C6 as stated: for every handler, when locate returns nothing, extract fails
\* with FileNotFoundError.
C6_NoLocationIsNotFound ==
  (HandlerExtracted /\ LocateNothing(call.handler, src))
     => call.exc = "FileNotFoundError"

\* C6 amended: when locate returns nothing, extract of the ZIP and of the ISO
\* handler fails with FileNotFoundError, and extract of the CUE/BIN handler
\* (whose locate returns nothing exactly when its detect fails) fails with
\* ValueError; nothing is written.
C6_NoLocationAmended ==
  (HandlerExtracted /\ LocateNothing(call.handler, src)) =>
     /\ call.exc = (IF call.handler = "CueBinHandler" THEN "ValueError"
                    ELSE "FileNotFoundError")
     /\ call.written = {}

\* witness of C6: the ISO handler ran on an image without the target
C6_Witness ==
  HandlerExtracted /\ call.handler = "IsoHandler" /\ src.iso.open
    /\ LocateNothing(call.handler, src) /\ call.exc = "FileNotFoundError"

\* the container the handler reads is structurally valid
ContainerValid(cls, s) ==
  CASE cls = "ZipHandler" -> s.zip.open = "ok"
    [] cls = "IsoHandler" -> s.iso.open /\ s.iso.listable
    [] OTHER -> \E t \in s.cue.conv.files :
                  Lower(t.ext) = DotIso /\ t.img.open /\ t.img.listable

\* C7: NotFound is raised only for a structurally valid container without the
\* target directory; a container that cannot be read or parsed never surfaces
\* as NotFound.
C7_NotFoundOnlyForValidContainer ==
  (HandlerExtracted /\ call.exc = "FileNotFoundError")
     => ContainerValid(call.handler, src)

(***************************** ZIP claims **********************************)
\* the directory names of an entry name: every piece between slashes but the
\* last one (an explicit directory entry ends in "/", so its last piece is "")
DirSegments(n) == LET ps == SplitSlash(n) IN {ps[i] : i \in 1..(Len(ps) - 1)}

\* the archive has a directory, explicit or implicit, named like the target
HasTargetDir(entries) ==
  \E k \in DOMAIN entries : \E seg \in DirSegments(entries[k].name) :
     Lower(seg) = fatdata

\* the last segment of a path string
LastSegment(path) == LET ps == SplitSlash(path) IN ps[Len(ps)]

ZipFound == call.handler = "ZipHandler" /\ call.op = "find" /\ call.exc = "none"
              /\ src.zip.open = "ok"

\* C8: ZIP locate returns a path iff the archive has a directory (an explicit
\* directory entry or an implicit parent) one of whose segments equals FATDATA
\* case-insensitively, and the returned path ends at the matching segment.
C8_LocateIffTargetDir ==
  ZipFound =>
    /\ (call.loc # None) <=> HasTargetDir(src.zip.entries)
    /\ call.loc # None => Lower(LastSegment(call.loc)) = fatdata

\* the file entries at or below the located directory
HasFileUnder(entries, P) ==
  \E k \in DOMAIN entries :
     /\ ~EndsWithSlash(entries[k].name)
     /\ (entries[k].name = P \/ StartsWith(entries[k].name, P \o Sl))

ZipExtracted == call.handler = "ZipHandler" /\ call.op = "extract"

\* C9: a ZIP whose located target directory holds no file entry makes extract
\* fail with FileNotFoundError (the output directory being creatable).
C9_EmptyTargetIsNotFound ==
  (ZipExtracted /\ call.loc # None /\ ~HasFileUnder(src.zip.entries, call.loc)
     /\ FsIsDir(fs, OutFatdata))
    => call.exc = "FileNotFoundError"

\* the entries below the located directory P that are not directory markers
EntriesUnder(entries, P) ==
  {k \in DOMAIN entries :
     StartsWith(entries[k].name, P \o Sl) /\ ~EndsWithSlash(entries[k].name)}

\* the file entries named exactly P
EntriesNamed(entries, P) == {k \in DOMAIN entries : entries[k].name = P}

\* r of an entry named P + "/" + r
RelativeName(n, P) == SubSeq(n, Len(P) + 2, Len(n))

\* output_dir/fatdata/r, r split at its slashes, letter case as in the archive
OutputOf(n, P) ==
  IF n = P THEN OutFatdata \o <<LastSegment(P)>>
  ELSE OutFatdata \o SplitSlash(RelativeName(n, P))

ZipSucceeded == ZipExtracted /\ call.exc = "none"

\* what reading the path p gives in the tree f
ReadAt(f, p) == IF Resolve(p) \in DOMAIN f THEN f[Resolve(p)] ELSE "absent"

\* C10 as stated: on success exactly one file is written per non-directory
\* entry below P, the entry P/r to output_dir/fatdata/r with the entry's bytes,
\* and nothing else is written.
C10_OneFilePerEntryUnder ==
  ZipSucceeded =>
    LET U == EntriesUnder(src.zip.entries, call.loc)
    IN  /\ call.written = {OutputOf(src.zip.entries[k].name, call.loc) : k \in U}
        /\ Cardinality(call.written) = Cardinality(U)
        /\ \A k \in U :
             ReadAt(fs, OutputOf(src.zip.entries[k].name, call.loc)) = src.zip.entries[k].data

\* an entry name that is a normalised relative path: no empty, "." or ".."
\* segment, so that joining it to a directory stays below that directory
NormalName(n) ==
  LET ps == SplitSlash(n) IN \A i \in DOMAIN ps : ps[i] \notin {<<>>, Dot, DotDot}

\* C10 amended: on success (the kept entry names being normalised relative
\* paths) the files written are exactly the outputs of the non-directory
\* entries named P/r (to output_dir/fatdata/r) or named P itself (to
\* output_dir/fatdata/<last segment of P>); each holds the bytes of the last
\* entry, in archive order, that is written there (of the last entry of that
\* name); its parents are directories; names keep their letter case.
C10_WrittenFilesAmended ==
  LET es == src.zip.entries
      K == EntriesUnder(es, call.loc) \cup EntriesNamed(es, call.loc)
      Out(k) == OutputOf(es[k].name, call.loc)
      LastOf(S) == CHOOSE k \in S : \A j \in S : j <= k
  IN  (ZipSucceeded /\ \A k \in K : NormalName(es[k].name)) =>
        /\ call.written = {Out(k) : k \in K}
        /\ \A t \in call.written :
             LET w == LastOf({k \in K : Out(k) = t})
                 e == LastOf({k \in DOMAIN es : es[k].name = es[w].name})
             IN  /\ fs[t] = es[e].data
                 /\ \A q \in Prefixes(t) \ {t} : FsIsDir(fs, q)
        /\ call.ret = OutFatdata

\* witness of C10: two entries below P, one in a subdirectory, were written
C10_Witness ==
  /\ ZipSucceeded
  /\ Cardinality(call.written) = 2
  /\ \E t \in call.written : Len(t) = 4

\* witness of the original C10's failure mode: a file entry named like P
C10_NamedWitness ==
  ZipSucceeded /\ EntriesNamed(src.zip.entries, call.loc) # {}

(***************************** ISO handler claims **************************)
IsoFound == call.op = "find" /\ call.handler = "IsoHandler"
IsoExtracted == call.op = "extract" /\ call.handler = "IsoHandler"

\* the records of the root directory that are named like the target, in any
\* letter case
RootTargets(img) ==
  {i \in DOMAIN img.nodes :
     Len(img.nodes[i].path) = 1 /\ Upper(img.nodes[i].path[1]) = FATDATA}

\* C11: the ISO handler's locate returns "/FATDATA" iff the root directory of
\* the image has an entry named FATDATA in some letter case that is a
\* directory, and returns nothing otherwise; entries below the root do not
\* count.
C11_LocateRootDirectory ==
  IsoFound =>
    /\ call.exc = "none"
    /\ call.loc \in {SlashFATDATA, None}
    /\ call.loc = SlashFATDATA <=>
         \E i \in RootTargets(src.iso) : src.iso.nodes[i].dir

\* the records below the root entry i, and where extract puts them
Below(img, i) ==
  {j \in DOMAIN img.nodes :
     Len(img.nodes[j].path) > 1 /\ img.nodes[j].path[1] = img.nodes[i].path[1]}
LoweredOutput(node) ==
  OutFatdata \o [k \in 1..(Len(node.path) - 1) |-> Lower(node.path[k + 1])]
Intact(img) ==
  \A j \in DOMAIN img.nodes : img.nodes[j].data \notin {"unreadable", "unlistable"}

\* the tree below the root entry i is in the output, names lower-cased, files
\* with their bytes
Reproduced(img, i, f) ==
  \A j \in Below(img, i) :
     IF img.nodes[j].dir THEN FsIsDir(f, LoweredOutput(img.nodes[j]))
     ELSE /\ FsIsFile(f, LoweredOutput(img.nodes[j]))
          /\ f[LoweredOutput(img.nodes[j])] = img.nodes[j].data

\* C12: for a readable image whose root holds the target directory under any
\* letter case of its name, the ISO handler's extract into an empty output
\* directory succeeds and every file of the directory's tree is in
\* output_dir/fatdata at its lower-cased relative path with its bytes.
C12_AnyCaseReproduced ==
  [][(/\ call.op = "none" /\ call'.op = "extract" /\ call'.handler = "IsoHandler"
      /\ fs = EmptyFs /\ src.iso.open /\ Intact(src.iso))
     => \A i \in RootTargets(src.iso) :
          src.iso.nodes[i].dir => call'.exc = "none" /\ Reproduced(src.iso, i, fs')]_vars

\* the records of the directory the walk starts from, "/FATDATA"
Walked(img) ==
  {j \in DOMAIN img.nodes :
     Len(img.nodes[j].path) > 1 /\ img.nodes[j].path[1] = FATDATA}

\* C13: every directory and file the ISO handler's extract creates below
\* output_dir/fatdata stands for a record of the image and is named, at every
\* depth, by the lower-cased names of that record's path; no path has a "." or
\* ".." segment.
C13_OutputNamesLowered ==
  IsoExtracted =>
    \A p \in call.written :
       /\ \E j \in Walked(src.iso) : p = LoweredOutput(src.iso.nodes[j])
       /\ \A k \in DOMAIN p : p[k] \notin {Dot, DotDot}
       /\ FsExists(fs, p)

\* names stored in mixed case were extracted, down to the second level
C13_Witness ==
  /\ IsoExtracted /\ call.exc = "none" /\ src.iso = ImgCase
  /\ OutFatdata \o <<Lower(IdSub), Lower(IdReadMe)>> \in call.written
  /\ Lower(IdSub) # IdSub

\* the ISO handler's extract got as far as the walk
IsoWalked == IsoExtracted /\ call.exc \in {"none", "RuntimeError"}

\* record j was written in full
WrittenInFull(img, j, f) ==
  /\ LoweredOutput(img.nodes[j]) \in call.written
  /\ IF img.nodes[j].dir THEN FsIsDir(f, LoweredOutput(img.nodes[j]))
     ELSE /\ FsIsFile(f, LoweredOutput(img.nodes[j]))
          /\ f[LoweredOutput(img.nodes[j])] = img.nodes[j].data

\* C14: the ISO walk stops at the first node that fails.  The call succeeds
\* only if every record was written in full, and otherwise ends with
\* RuntimeError; what was written is a prefix of the records in depth-first
\* order, so nothing after the failing node is written; and everything written
\* is still on disk when the call has ended.
C14_WalkAbortsOnFailure ==
  IsoWalked =>
    /\ call.exc = "none" <=>
         /\ list_children(src.iso, SlashFATDATA).ok
         /\ \A j \in Walked(src.iso) : WrittenInFull(src.iso, j, fs)
    /\ \A i, j \in Walked(src.iso) :
         (i < j /\ LoweredOutput(src.iso.nodes[j]) \in call.written)
            => WrittenInFull(src.iso, i, fs)
    /\ \A p \in call.written : FsExists(fs, p)

\* a subdirectory could not be listed: the file before it and the directory
\* itself are on disk, the file after it is not
C14_Witness ==
  /\ IsoWalked /\ call.exc = "RuntimeError" /\ src.iso = ImgBadDir
  /\ FsIsFile(fs, OutFatdata \o <<LowerIdA>>)
  /\ FsIsDir(fs, OutFatdata \o <<LowerIdS>>)
  /\ ~FsExists(fs, OutFatdata \o <<Lower(IdC)>>)

(***************************** CUE/BIN handler claims **********************)
CueDetected == call.op = "can_handle" /\ call.handler = "CueBinHandler"
CueFound == call.op = "find" /\ call.handler = "CueBinHandler"
CueExtracted == call.op = "extract" /\ call.handler = "CueBinHandler"

\* the extension of the file that goes with the entry-point file
OtherExtension(s) == IF Lower(s.suffix) = DotCue THEN DotBin ELSE DotCue

\* a file with the same base name and the other extension, in any letter case
HasSibling(s) == \E sib \in s.cue.siblings : Lower(sib) = OtherExtension(s)

\* C15: the CUE/BIN handler's detect returns true whenever the file has the
\* extension cue or bin in any letter case, a sibling with the other extension
\* exists in any letter case of that extension, and the converter is
\* resolvable; it returns false when the sibling is absent or the extension is
\* neither.  (The filesystem is case-sensitive.)
C15_DetectAnyCase ==
  CueDetected =>
    /\ call.exc = "none"
    /\ call.val <=> /\ Lower(src.suffix) \in {DotCue, DotBin}
                    /\ src.exists /\ HasSibling(src)
                    /\ src.cue.bchunk

\* a call of the CUE/BIN handler begins and ends in this step
CueCall == call.op = "none" /\ call'.op # "none" /\ call'.handler = "CueBinHandler"
CueExtractCall == CueCall /\ call'.op = "extract"

\* C16: with no converter resolved, the CUE/BIN handler's detect returns false,
\* its locate returns nothing, and its extract raises ValueError having created
\* no scratch directory, launched no process and written nothing.
C16_UnresolvedIsUnsupported ==
  [][(CueCall /\ ~src.cue.bchunk)
     => /\ call'.op = "can_handle" => call'.exc = "none" /\ ~call'.val
        /\ call'.op = "find" => call'.exc = "none" /\ call'.loc = None
        /\ call'.op = "extract" =>
             /\ call'.exc = "ValueError"
             /\ call'.steps = <<>> /\ call'.written = {}
             /\ fs' = fs]_vars

\* extract was refused for a pair of files that lacks nothing but the converter
C16_Witness ==
  /\ CueExtracted /\ ~src.cue.bchunk /\ call.exc = "ValueError"
  /\ Cue_can_handle_anyconverter(src).val

\* C17: when the CUE/BIN handler's extract has ended, however it ended, the
\* scratch directory and everything in it is gone, and neither the returned
\* directory nor any recorded audio path lies in it; a call that created the
\* scratch directory ended by removing it.
C17_ScratchRemoved ==
  CueExtracted =>
    /\ \A p \in DOMAIN fs : ~UnderPath(p, Scratch)
    /\ ~UnderPath(call.ret, Scratch)
    /\ \A k \in DOMAIN call.music : ~UnderPath(call.music[k], Scratch)
    /\ call.steps # <<>> =>
         call.steps[1] = "mkdtemp" /\ call.steps[Len(call.steps)] = "cleanup"

\* the call failed while copying the audio tracks, after the scratch directory
\* was filled and the image extracted
C17_Witness ==
  /\ CueExtracted /\ call.exc = "OSError"
  /\ call.steps = <<"mkdtemp", "subprocess.run", "classify",
                    "iso_handler.extract_fatdata", "copy2", "cleanup">>
  /\ FsNonEmpty(fs, OutFatdata)

\* the same source file with a run of the converter that differs in its exit
\* status only
OtherStatus(s) == [s EXCEPT !.cue.conv.rc = 1 - @]

SameOutcome(o, c, f) ==
  /\ o.exc = c.exc /\ o.fs = f
  /\ o.ret = c.ret /\ o.music = c.music /\ o.written = c.written

\* C18: the CUE/BIN handler's extract has the same outcome (exception or
\* success, output tree, returned directory, recorded audio paths) as it has,
\* from the same filesystem, for a run of the converter that leaves the same
\* files with the other exit status.
C18_ExitStatusIgnored ==
  [][CueExtractCall
     => SameOutcome(Cue_extract_fatdata(OtherStatus(src), OutDir, fs), call', fs')]_vars

\* a run that ended with a non-zero status was extracted, audio tracks included
C18_Witness ==
  /\ CueExtracted /\ src.cue.conv.rc # 0 /\ call.exc = "none"
  /\ call.music # <<>> /\ FsNonEmpty(fs, OutFatdata)

\* the files the converter left that are audio tracks, and those that are images
AudioTracks(s) == {t \in s.cue.conv.files : Lower(t.ext) \in {DotWav, DotCdr}}
DataTracks(s) == {t \in s.cue.conv.files : Lower(t.ext) = DotIso}

\* the converter ran for a pair of files the handler accepts
Converted(s) == Cue_can_handle(s).val /\ s.cue.conv.exc = "none"

\* C19: when the converter ran and left no file with the extension iso (in any
\* letter case), the CUE/BIN handler's extract raises RuntimeError without
\* calling the ISO handler, and the filesystem is as it was before the call,
\* whether or not audio tracks were left.
C19_NoDataTrackFails ==
  [][(CueExtractCall /\ Converted(src) /\ DataTracks(src) = {})
     => /\ call'.exc = "RuntimeError"
        /\ \A k \in DOMAIN call'.steps : call'.steps[k] # "iso_handler.extract_fatdata"
        /\ call'.written = {}
        /\ fs' = fs]_vars

\* the converter left audio tracks only and the call failed
C19_Witness ==
  /\ CueExtracted /\ Converted(src) /\ DataTracks(src) = {} /\ AudioTracks(src) # {}
  /\ call.exc = "RuntimeError"
  /\ call.steps = <<"mkdtemp", "subprocess.run", "classify", "cleanup">>

\* where the audio track t goes, and its place in name order
Destination(t) == OutAudio \o <<TrackName(t)>>
Rank(s, t) == 1 + Cardinality({u \in AudioTracks(s) : u.n < t.n})

\* the regular files below output_dir/audio
AudioFiles(f) == {p \in DOMAIN f : UnderPath(p, OutAudio) /\ f[p] # "dir"}

C20_NoAudioWitness ==
  /\ CueExtracted /\ call.exc = "none" /\ AudioTracks(src) = {}
  /\ ~FsExists(fs, OutAudio) /\ FsNonEmpty(fs, OutFatdata)

\* the steps of the pipeline in the order the handler takes them
PipelineOrder ==
  <<"mkdtemp", "subprocess.run", "classify", "iso_handler.extract_fatdata",
    "copy2", "cleanup">>
Position(step) == CHOOSE k \in DOMAIN PipelineOrder : PipelineOrder[k] = step
InPipelineOrder(steps) ==
  /\ \A k \in DOMAIN steps : \E j \in DOMAIN PipelineOrder : PipelineOrder[j] = steps[k]
  /\ \A i, j \in DOMAIN steps : i < j => Position(steps[i]) < Position(steps[j])

\* the image the handler hands to the ISO handler: the last one in name order
DataTrack(s) == CHOOSE t \in DataTracks(s) : \A u \in DataTracks(s) : u.n <= t.n

\* what the ISO handler does with that image, run from filesystem f
Delegated(s, f) ==
  Iso_extract_image(DataTrack(s).img, Iso_find_image(DataTrack(s).img), OutDir, f)

\* if the ISO handler's run r failed: the call c ended with r's exception, no
\* audio track was copied, and the filesystem f after the call is the one the
\* ISO handler left, with the audio files and directory of before (f0)
EndedAs(r, c, f, f0) ==
  r.exc # "none" =>
    /\ c.exc = r.exc /\ f = r.fs /\ c.written = r.written /\ c.music = <<>>
    /\ \A k \in DOMAIN c.steps : c.steps[k] # "copy2"
    /\ AudioFiles(f) = AudioFiles(f0)
    /\ FsExists(f, OutAudio) <=> FsExists(f0, OutAudio)

\* C21: the CUE/BIN handler's extract takes its steps in the order converter
\* run, classification, ISO extraction, audio copy; and when the ISO
\* extraction of the converted image fails, the call fails with the same
\* exception, has copied no audio track, and leaves the filesystem as the ISO
\* handler left it, so that no output_dir/audio was created.
C21_PipelineOrderAndPropagation ==
  [][CueExtractCall
     => /\ InPipelineOrder(call'.steps)
        /\ (Converted(src) /\ DataTracks(src) # {})
             => EndedAs(Delegated(src, fs), call', fs', fs)]_vars

\* the converted image has no target directory: the call failed as the ISO
\* handler does, with audio tracks waiting in the scratch directory
C21_Witness ==
  /\ CueExtracted /\ Converted(src) /\ DataTracks(src) # {} /\ AudioTracks(src) # {}
  /\ call.exc = "FileNotFoundError"
  /\ call.steps = <<"mkdtemp", "subprocess.run", "classify",
                    "iso_handler.extract_fatdata", "cleanup">>
  /\ ~FsExists(fs, OutAudio)

(***************************** top-level call claims ***********************)
\* a call of the top-level extract_fatdata begins and ends in this step
TopCall == call.op = "none" /\ call'.op = "extract_fatdata"

\* exception e is the one of the handler's extract, or of validate after it,
\* for the handler class cls run in the output directory made in f
RaisedBelow(e, cls, f) ==
  \E zloc \in Zip_find_fatdata_path(src) :
     TopExtracted(cls, handler_extract(cls, src, OutDir,
                    Mkdirs(get_handler_fs(handlers, src, f), OutDir).fs, zloc)).exc = e

\* C22: an exception of the top-level extract_fatdata is the exception raised
\* by the handler it dispatched to (by its detect, its extract, or validate of
\* its result), unchanged; or it is the ValueError raised when no handler is
\* bound to the extension or the bound handler's detect returned false.  The
\* call raises nothing else of its own.
C22_OnlyUnsupportedOriginated ==
  [][(TopCall /\ call'.exc # "none")
     => \/ /\ call'.handler = NoHandler
           /\ get_handler(handlers, src).exc = "none"
           /\ call'.exc = "ValueError"
        \/ /\ call'.handler = NoHandler
           /\ get_handler(handlers, src).exc = call'.exc
        \/ /\ call'.handler # NoHandler
           /\ Mkdirs(fs, OutDir).ok
           /\ RaisedBelow(call'.exc, call'.handler, fs)]_vars

(***************************** repeatability *******************************)
\* run r of an extract ended as the call c did and left the output tree f
SameRun(r, c, f) == r.exc = c.exc /\ r.fs = f /\ r.ret = c.ret

\* C23: a run of the ZIP handler's extract into an empty output directory
\* leaves the same output tree, and ends the same way, as every other run of
\* it on the same archive into an empty output directory, whichever order the
\* set of directory paths is iterated in.
C23_RepeatableExtraction ==
  [][(call.op = "none" /\ call'.op = "extract" /\ call'.handler = "ZipHandler"
      /\ fs = EmptyFs)
     => \A loc \in Zip_find_fatdata_path(src) :
          SameRun(Zip_extract_fatdata(src, OutDir, EmptyFs, loc), call', fs')]_vars

(***************************** registration claims *************************)
\* the logged registrations whose extension equals e, letter case aside
RegistrationsOf(e) ==
  {i \in DOMAIN registered : Lower(registered[i].extension) = Lower(e)}
LastOf(S) == CHOOSE i \in S : \A j \in S : j <= i

\* the class a file with extension e is to be resolved to: the one of the most
\* recent registration of e, else the built-in one, else none
BoundClass(e) ==
  IF RegistrationsOf(e) # {} THEN registered[LastOf(RegistrationsOf(e))].handler_class
  ELSE IF Lower(e) \in DOMAIN DefaultHandlers THEN DefaultHandlers[Lower(e)]
  ELSE NoHandler

FileExtensions == {DotZip, DotZIP, DotIso, DotISO, Dot7z, Dot7Z, <<>>}

\* C24: after any sequence of registrations, the class the registry looks up
\* for a file extension is the one of the most recent registration whose
\* extension equals it case-insensitively, and the built-in one (or none) for
\* an extension never registered; get_handler returns an instance of that
\* class whenever its detect accepts the file, and of no other class.
C24_LastRegistrationWins ==
  /\ \A e \in FileExtensions :
       IF BoundClass(e) = NoHandler THEN Lower(e) \notin DOMAIN handlers
       ELSE Lower(e) \in DOMAIN handlers /\ handlers[Lower(e)] = BoundClass(e)
  /\ (call.op = "get_handler" /\ call.exc = "none") =>
       /\ call.handler \in {BoundClass(src.suffix), NoHandler}
       /\ (BoundClass(src.suffix) # NoHandler
           /\ can_handle(BoundClass(src.suffix), src).val)
            => call.handler = BoundClass(src.suffix)

\* '.ZIP' was registered twice, last for the ISO handler, and a file x.zip that
\* is an ISO image was resolved to it
C24_Witness ==
  /\ call.op = "get_handler" /\ call.handler = "IsoHandler" /\ src.suffix = DotZip
  /\ Len(registered) = 2
  /\ registered[1] = [extension |-> DotZIP, handler_class |-> "CueBinHandler"]
  /\ registered[2] = [extension |-> DotZIP, handler_class |-> "IsoHandler"]

\* C25: every key of the registry mapping is lower-cased and starts with a
\* dot, after any sequence of registrations.
C25_KeysNormalized ==
  \A e \in DOMAIN handlers : Lower(e) = e /\ Len(e) > 0 /\ e[1] = "."

(***************************** concurrency claims **************************)
\* the part of the filesystem at and below directory out
Restrict(f, out) == [q \in {x \in DOMAIN f : UnderPath(x, out)} |-> f[q]]

\* the runs of the call c alone, from an empty filesystem, with the registry h
AloneRuns(h, c) ==
  {extract_fatdata(h, c.src, c.out, EmptyFs, zloc) :
     zloc \in Zip_find_fatdata_path(c.src)}

\* the finished call c, with the filesystem f it leaves, ended as run r did
SameAsAlone(r, c, f) ==
  /\ r.exc = c.exc /\ r.ret = c.ret /\ r.music = c.music
  /\ Restrict(r.fs, c.out) = Restrict(f, c.out)

Finished(p) == procs # <<>> /\ procs[p].pc = "done"

RegistryRead(c) == IF c.looked = <<>> THEN c.began ELSE c.looked

FilesWritten(f0, f) ==
  {p \in DOMAIN f : f[p] # "dir" /\ (p \notin DOMAIN f0 \/ f0[p] # f[p])}

\* C27: every file that the ZIP handler's extract writes lies inside
\* output_dir/fatdata, whatever the entry names of the archive: none is created
\* or rewritten outside that directory.
C27_WritesStayInside ==
  [][(call.op = "none" /\ call'.op = "extract" /\ call'.handler = "ZipHandler")
     => \A p \in FilesWritten(fs, fs') : UnderPath(p, OutFatdata)]_vars


(***************************** failing before dispatch *********************)
\* the top-level call ended before dispatch: the source file is missing, or
\* no handler accepted it
FailedBeforeDispatch ==
  \/ ~src.exists /\ call'.exc = "FileNotFoundError"
  \/ src.exists /\ call'.handler = NoHandler /\ call'.exc = "ValueError"

\* C28: a top-level extract_fatdata that fails before dispatch (source file
\* missing, or no handler accepts it) leaves the filesystem as it was: the
\* output directory is not created and nothing is written; and a call that
\* creates the output directory has resolved a handler whose detection
\* succeeded.
C28_NoEffectBeforeDispatch ==
  [][TopCall =>
       /\ FailedBeforeDispatch => fs' = fs
       /\ (OutDir \notin DOMAIN fs /\ OutDir \in DOMAIN fs')
            => /\ call'.handler # NoHandler
               /\ get_handler(handlers, src).val = call'.handler]_vars


(***************************** nested target directories *******************)
\* the directories that the entry name n names like the target, as explicit
\* entry or as implicit parent: the paths ending at a matching piece of n that
\* is not its last piece
TargetDirsOf(n) ==
  LET ps == SplitSlash(n)
  IN  {JoinSlash(SubSeq(ps, 1, i)) :
         i \in {j \in 1..(Len(ps) - 1) : IsFatdataPart(ps[j])}}

\* the directories of the archive that are named like the target
TargetDirs(entries) == UNION {TargetDirsOf(entries[k].name) : k \in DOMAIN entries}

\* directory a is b or an ancestor of b
AtOrAbove(a, b) == a = b \/ StartsWith(b, a \o Sl)

\* the directories of D lie on one ancestor chain
OnOneChain(D) == \A a, b \in D : AtOrAbove(a, b) \/ AtOrAbove(b, a)

Outermost(D) == CHOOSE a \in D : \A b \in D : AtOrAbove(a, b)

\* the answers that the iteration orders of all_paths can give
LocateAnswers == {r.val : r \in Zip_find_fatdata_path(src)}

\* C29: when all the directories of the archive named like the target lie on
\* one ancestor chain, ZIP locate returns the outermost of them whatever the
\* iteration order; a returned path has no proper ancestor segment that matches
\* the target; and the answer varies with the order only when matching
\* directories lie on different branches.
C29_OutermostOnOneChain ==
  ZipFound =>
    LET D == TargetDirs(src.zip.entries)
    IN  /\ (D # {} /\ OnOneChain(D))
             => call.loc = Outermost(D) /\ LocateAnswers = {Outermost(D)}
        /\ call.loc # None
             => LET ps == SplitSlash(call.loc)
                IN  \A j \in 1..(Len(ps) - 1) : ~IsFatdataPart(ps[j])
        /\ Cardinality(LocateAnswers) > 1 => ~OnOneChain(D)


(***************************** the version file ****************************)
\* the downloader returned successfully for the tag in a call before step i of
\* the run
DownloadedBefore(run, i, tag) ==
  \E j \in 1..(i - 1) : run.steps[j] = [op |-> "download", tag |-> tag, exc |-> "none"]

\* C30: the install command writes the version file, with version V, only
\* after its downloader has returned successfully for V; a run in which the
\* downloader did not return successfully (the version already recorded and no
\* --force, no pre-release found, a failed download, or any other failure
\* before) leaves the version file with the text it had before the run.
C30_VersionSavedAfterDownload ==
  /\ \A i \in DOMAIN install.steps :
       install.steps[i].op = "write_text"
         => /\ install.steps[i].tag = install.version
            /\ DownloadedBefore(install, i, install.version)
  /\ ~DownloadedBefore(install, Len(install.steps) + 1, install.version)
       => version_file = install.before
  /\ (install.pc = "done" /\ install.exit = 0
        /\ DownloadedBefore(install, Len(install.steps) + 1, install.version))
       => version_file = install.version

\* a second run has replaced the recorded version by another one
C30_Witness ==
  /\ install.pc = "done" /\ install.exit = 0 /\ install.n = 2
  /\ install.before # NoFile
  /\ version_file = install.version /\ version_file # install.before
  /\ \E i \in DOMAIN install.steps : install.steps[i].op = "write_text"

============================================================================
